---- MODULE Spec2Model ----
(***************************************************************************)
(* Flight-log analytics and PDF report pipeline of Euler_LOG_Viewer:       *)
(*   src/src/utils/report_generator.py  (ReportGenerationManager)          *)
(*   src/src/utils/pdf_reporter.py      (PdfReportWorker)                  *)
(*                                                                         *)
(* Numbers.  Python floats are modelled as tagged values: a finite number  *)
(* (an integer of the model's unit resolution), +inf, -inf, NaN, or None.  *)
(* A pandas cell is a tagged value as well: "nan" is the missing cell      *)
(* (NaN/None/NaT, removed by dropna), "str" a non-numeric text cell        *)
(* (pd.to_numeric(errors="coerce") turns it into NaN).                     *)
(***************************************************************************)
EXTENDS Integers, Sequences, FiniteSets, TLC

VARIABLES
    dargs,      \* _detect_anomalies: the nine keyword arguments
    danoms,     \* _detect_anomalies: the returned list
    dpc,        \* _detect_anomalies: "call" | "done"
    cur_df,     \* _compute_metrics_for_df: the table passed in (df)
    metrics,    \* _compute_metrics_for_df: the LogAnalytics returned
    mpc,        \* _compute_metrics_for_df: "call" | "done" | "raised"
    cur_log_data, \* generate_pdf: the log_data argument
    file,       \* the file at file_path
    gpc,        \* generate_pdf: where the call stands
    gen_result, \* generate_pdf: "none" | "rejected" | "raised" | "started"
    plot_sections,  \* generate_pdf local, then the worker's field
    map_sections,   \* generate_pdf local, then the worker's field
    analytics,  \* generate_pdf local analytics_payload, then the worker's field
    events,     \* signals emitted and operations performed, in order
    thread,     \* self._thread: "none" | "running" | "quitting" | "finished"
    wpc,        \* PdfReportWorker.run: where the worker stands
    pages,      \* pages composed on the canvas so far
    queued,     \* worker signal waiting for the manager's event loop
    fmt_in,     \* _format_duration: the argument (seconds)
    fmt_out,    \* _format_duration: the returned text
    fpc,        \* _format_duration: "idle" | "call" | "done"
    pair_call,  \* a call of _format_pair: its arguments, result and position
    image_call, \* one image of _add_image_collection: its size and how it is drawn
    manager,    \* a ReportGenerationManager that is called more than once
    dialog,     \* the LogDownloadDialog, its buttons and its workers
    downloader, \* a SharePointDownloadWorker and the signals it has emitted
    plots_widget \* the StandardPlotsWidget and the scripts its page has run

detVars == <<dargs, danoms, dpc>>
metVars == <<cur_df, metrics, mpc>>
genVars == <<cur_log_data, gpc, gen_result, plot_sections, map_sections, analytics>>
wrkVars == <<thread, wpc, pages, queued>>
pipeVars == <<genVars, wrkVars, file, events>>
fmtVars == <<fmt_in, fmt_out, fpc>>
auxVars == <<pair_call, image_call, manager, dialog, downloader, plots_widget>>
baseVars == <<detVars, metVars, pipeVars, fmtVars>>
vars == <<baseVars, auxVars>>

----------------------------------------------------------------------------
(* Tagged numbers *)

Fin(n) == [k |-> "fin", v |-> n]
PInf == [k |-> "pinf", v |-> 0]
NInf == [k |-> "ninf", v |-> 0]
NaN == [k |-> "nan", v |-> 0]
None == [k |-> "none", v |-> 0]
StrCell == [k |-> "str", v |-> 0]

IsFinite(x) == x.k = "fin"

\* Python's  a > b  and  a < b  for a float a and an int literal b: every
\* comparison with NaN is False.
Gt(a, b) == (a.k = "fin" /\ a.v > b) \/ a.k = "pinf"
Lt(a, b) == (a.k = "fin" /\ a.v < b) \/ a.k = "ninf"

----------------------------------------------------------------------------
(* pandas tables.  A DataFrame is its row count n and its columns c, a     *)
(* function from the names of the columns present to sequences of n cells. *)

Dt(n) == [k |-> "dt", v |-> n]          \* a datetime cell, in seconds

DataFrame(n, c) == [isNone |-> FALSE, n |-> n, c |-> c]
NoneDf == [isNone |-> TRUE, n |-> 0, c |-> <<>>]

Columns(df) == DOMAIN df.c

\* df.empty: some axis has length 0
IsEmpty(df) == df.n = 0 \/ Columns(df) = {}

RECURSIVE SumSeq(_)
SumSeq(s) == IF s = <<>> THEN 0 ELSE Head(s) + SumSeq(Tail(s))

Abs(n) == IF n < 0 THEN -n ELSE n

Isqrt(x) == CHOOSE r \in 0..x : r * r <= x /\ (r + 1) * (r + 1) > x

\* Series.dropna()
dropna(s) == SelectSeq(s, LAMBDA x : x.k # "nan")

\* pd.to_numeric(series, errors="coerce")
to_numeric(s) == [i \in DOMAIN s |-> IF s[i].k \in {"str", "dt"} THEN NaN ELSE s[i]]

\* Series.abs()
SeriesAbs(s) ==
    [i \in DOMAIN s |->
        IF s[i].k = "fin" THEN Fin(Abs(s[i].v))
        ELSE IF s[i].k = "ninf" THEN PInf ELSE s[i]]

Kinds(s) == {s[i].k : i \in DOMAIN s}
FinVals(s) == {s[i].v : i \in {j \in DOMAIN s : s[j].k = "fin"}}
\* min() in the place of max()
MaxOf_min(S) == CHOOSE x \in S : \A y \in S : x <= y

MaxOf(S) == CHOOSE x \in S : \A y \in S : y <= x
MinOf(S) == CHOOSE x \in S : \A y \in S : x <= y

\* Series.max(), Series.min(), Series.mean(), Series.std(): NaN cells are
\* skipped, infinite cells are not.
SeriesMax(s) ==
    LET d == dropna(s) IN
    IF d = <<>> THEN NaN
    ELSE IF "pinf" \in Kinds(d) THEN PInf
    ELSE IF "fin" \in Kinds(d) THEN Fin(MaxOf(FinVals(d)))
    ELSE NInf

SeriesMin(s) ==
    LET d == dropna(s) IN
    IF d = <<>> THEN NaN
    ELSE IF "ninf" \in Kinds(d) THEN NInf
    ELSE IF "fin" \in Kinds(d) THEN Fin(MinOf(FinVals(d)))
    ELSE PInf

SeriesMean(s) ==
    LET d == dropna(s) IN
    IF d = <<>> THEN NaN
    ELSE IF {"pinf", "ninf"} \subseteq Kinds(d) THEN NaN
    ELSE IF "pinf" \in Kinds(d) THEN PInf
    ELSE IF "ninf" \in Kinds(d) THEN NInf
    ELSE Fin(SumSeq([i \in DOMAIN d |-> d[i].v]) \div Len(d))

\* Sample standard deviation (ddof = 1): NaN for fewer than two values and
\* whenever an infinite value takes part.
SeriesStd(s) ==
    LET d == dropna(s)
        n == Len(d)
        sum == SumSeq([i \in DOMAIN d |-> d[i].v])
        sumsq == SumSeq([i \in DOMAIN d |-> d[i].v * d[i].v])
    IN  IF n < 2 THEN NaN
        ELSE IF Kinds(d) # {"fin"} THEN NaN
        ELSE Fin(Isqrt((n * sumsq - sum * sum) \div (n * (n - 1))))

\* float subtraction a - b
Sub(a, b) ==
    IF a.k = "nan" \/ b.k = "nan" THEN NaN
    ELSE IF a.k = "fin" /\ b.k = "fin" THEN Fin(a.v - b.v)
    ELSE IF a.k = b.k THEN NaN
    ELSE IF a.k = "pinf" \/ b.k = "ninf" THEN PInf
    ELSE NInf

----------------------------------------------------------------------------
(* ReportGenerationManager._safe_series_* and _compute_fuel *)

_safe_series_max(df, column) ==
    IF column \notin Columns(df) THEN None
    ELSE LET series == to_numeric(df.c[column]) IN
         IF dropna(series) = <<>> THEN None ELSE SeriesMax(series)

_safe_series_min(df, column) ==
    IF column \notin Columns(df) THEN None
    ELSE LET series == to_numeric(df.c[column]) IN
         IF dropna(series) = <<>> THEN None ELSE SeriesMin(series)

_safe_series_absmax(df, column) ==
    IF column \notin Columns(df) THEN None
    ELSE LET series == SeriesAbs(to_numeric(df.c[column])) IN
         IF dropna(series) = <<>> THEN None ELSE SeriesMax(series)

_safe_series_mean(df, column) ==
    IF column \notin Columns(df) THEN None
    ELSE LET series == to_numeric(df.c[column]) IN
         IF dropna(series) = <<>> THEN None ELSE SeriesMean(series)

_safe_series_std(df, column) ==
    IF column \notin Columns(df) THEN None
    ELSE LET series == dropna(to_numeric(df.c[column])) IN
         IF series = <<>> THEN None ELSE SeriesStd(series)

FuelOf(df, col) ==
    LET series == dropna(to_numeric(df.c[col])) IN Sub(series[1], series[Len(series)])

HasFuel(df, col) == col \in Columns(df) /\ dropna(to_numeric(df.c[col])) # <<>>

\* The candidates tried in the opposite order.
_compute_fuel_dig_first(df) ==
    IF HasFuel(df, "FuelLevel_dig") THEN FuelOf(df, "FuelLevel_dig")
    ELSE IF HasFuel(df, "FuelLevel_anag") THEN FuelOf(df, "FuelLevel_anag")
    ELSE None

_compute_fuel(df) ==
    IF HasFuel(df, "FuelLevel_anag") THEN FuelOf(df, "FuelLevel_anag")
    ELSE IF HasFuel(df, "FuelLevel_dig") THEN FuelOf(df, "FuelLevel_dig")
    ELSE None

----------------------------------------------------------------------------
(* ReportGenerationManager._compute_distance *)

MAX_LATITUDE == 90

\* geopy's geodesic(p0, p1): ValueError for a latitude outside [-90, 90]
GeodesicRaises(p0, p1) == Abs(p0[1].v) > MAX_LATITUDE \/ Abs(p1[1].v) > MAX_LATITUDE

\* geodesic(p0, p1).kilometers: the library's distance, here a metric on the
\* model's coordinate grid (zero exactly for equal points, symmetric).
GeodesicKm(p0, p1) == Abs(p0[1].v - p1[1].v) + Abs(p0[2].v - p1[2].v)

\* The row numbers that df[cols].dropna() keeps, in order.
KeptRows(df, cols) ==
    SelectSeq([i \in 1..df.n |-> i], LAMBDA i : \A c \in cols : df.c[c][i].k # "nan")

\* The loop body's contribution for one pair: a ValueError skips the pair.
Leg(p0, p1) == IF GeodesicRaises(p0, p1) THEN 0 ELSE GeodesicKm(p0, p1)

_compute_distance(df) ==
    IF ~({"Latitude", "Longitude"} \subseteq Columns(df)) THEN 0
    ELSE LET subset == KeptRows(df, {"Latitude", "Longitude"})
             coords == [j \in DOMAIN subset |->
                           <<df.c["Latitude"][subset[j]], df.c["Longitude"][subset[j]]>>]
         IN  IF Len(subset) < 2 THEN 0
             ELSE SumSeq([j \in 1..(Len(coords) - 1) |-> Leg(coords[j], coords[j + 1])])

----------------------------------------------------------------------------
(* ReportGenerationManager._compute_rate *)

\* pd.to_datetime(series["Timestamp"]) raises on text that is no date; the
\* function has no handler, so the exception leaves _compute_rate.
_compute_rate_raises(df, column) ==
    /\ {column, "Timestamp"} \subseteq Columns(df)
    /\ LET series == KeptRows(df, {"Timestamp", column}) IN
       /\ Len(series) >= 2
       /\ \E j \in DOMAIN series : df.c["Timestamp"][series[j]].k = "str"

\* The finite entries of |diffs / dt|: dt = 0 is replaced by NaN, and
\* np.isfinite drops NaN and infinite rates.
FiniteRates(values, timestamps) ==
    LET idx == {j \in 1..(Len(values) - 1) :
                   /\ Sub(values[j + 1], values[j]).k = "fin"
                   /\ timestamps[j + 1].v - timestamps[j].v # 0}
    IN  {Abs(Sub(values[j + 1], values[j]).v) \div Abs(timestamps[j + 1].v - timestamps[j].v) :
            j \in idx}

\* np.nanmin in the place of np.nanmax.
_compute_rate_min(df, column) ==
    IF ~({column, "Timestamp"} \subseteq Columns(df)) THEN None
    ELSE LET series == KeptRows(df, {"Timestamp", column})
             values == to_numeric([j \in DOMAIN series |-> df.c[column][series[j]]])
             timestamps == [j \in DOMAIN series |-> df.c["Timestamp"][series[j]]]
             rates == FiniteRates(values, timestamps)
         IN  IF Len(series) < 2 THEN None
             ELSE IF rates = {} THEN None
             ELSE Fin(MinOf(rates))

_compute_rate(df, column) ==
    IF ~({column, "Timestamp"} \subseteq Columns(df)) THEN None
    ELSE LET series == KeptRows(df, {"Timestamp", column})
             values == to_numeric([j \in DOMAIN series |-> df.c[column][series[j]]])
             timestamps == [j \in DOMAIN series |-> df.c["Timestamp"][series[j]]]
             rates == FiniteRates(values, timestamps)
         IN  IF Len(series) < 2 THEN None
             ELSE IF rates = {} THEN None
             ELSE Fin(MaxOf(rates))

----------------------------------------------------------------------------
(* ReportGenerationManager._detect_anomalies *)

ROLL_LIMIT == 60
PITCH_LIMIT == 30
YAW_RATE_LIMIT == 45
VSPEED_LIMIT == 8
VOLTAGE_LIMIT == 21
CHT_LIMIT == 180
WIND_STD_LIMIT == 5
GNSS_LIMIT == 5
FUEL_LIMIT == 0

\* An f-string warning: its fixed text and the value formatted into it.
Msg(text, value) == [text |-> text, value |-> value]

MSG_ROLL == "Bancos elevados"
MSG_PITCH == "Angulo de arfagem agressivo"
MSG_YAW == "Taxa de guinada acima do nominal"
MSG_VSPEED == "Razao de subida/descida critica"
MSG_VOLTAGE == "Tensao minima perigosa"
MSG_CHT == "CHT elevado"
MSG_WIND == "Variabilidade de vento alta"
MSG_GNSS == "Erro GNSS vertical acima do limite"
MSG_FUEL == "Sensor de combustivel invertido"
MSG_NO_DATA == "Arquivo sem dados validos."

When(cond, msg) == IF cond THEN <<msg>> ELSE <<>>

\* The same function with the first comparison written >= instead of >.
_detect_anomalies_ge(m) ==
       When(m.max_roll # None /\ (Gt(m.max_roll, ROLL_LIMIT) \/ m.max_roll = Fin(ROLL_LIMIT)),
            Msg(MSG_ROLL, m.max_roll))
    \o When(m.max_pitch # None /\ Gt(m.max_pitch, PITCH_LIMIT), Msg(MSG_PITCH, m.max_pitch))
    \o When(m.max_yaw_rate # None /\ Gt(m.max_yaw_rate, YAW_RATE_LIMIT),
            Msg(MSG_YAW, m.max_yaw_rate))
    \o When(m.vertical_speed_peak # None /\ Gt(m.vertical_speed_peak, VSPEED_LIMIT),
            Msg(MSG_VSPEED, m.vertical_speed_peak))
    \o When(m.min_voltage # None /\ Lt(m.min_voltage, VOLTAGE_LIMIT),
            Msg(MSG_VOLTAGE, m.min_voltage))
    \o When(m.max_cht # None /\ Gt(m.max_cht, CHT_LIMIT), Msg(MSG_CHT, m.max_cht))
    \o When(m.wind_std # None /\ Gt(m.wind_std, WIND_STD_LIMIT), Msg(MSG_WIND, m.wind_std))
    \o When(m.gnss_error # None /\ Gt(m.gnss_error, GNSS_LIMIT), Msg(MSG_GNSS, m.gnss_error))
    \o When(m.fuel_used # None /\ Lt(m.fuel_used, FUEL_LIMIT), Msg(MSG_FUEL, None))

_detect_anomalies(m) ==
       When(m.max_roll # None /\ Gt(m.max_roll, ROLL_LIMIT), Msg(MSG_ROLL, m.max_roll))
    \o When(m.max_pitch # None /\ Gt(m.max_pitch, PITCH_LIMIT), Msg(MSG_PITCH, m.max_pitch))
    \o When(m.max_yaw_rate # None /\ Gt(m.max_yaw_rate, YAW_RATE_LIMIT),
            Msg(MSG_YAW, m.max_yaw_rate))
    \o When(m.vertical_speed_peak # None /\ Gt(m.vertical_speed_peak, VSPEED_LIMIT),
            Msg(MSG_VSPEED, m.vertical_speed_peak))
    \o When(m.min_voltage # None /\ Lt(m.min_voltage, VOLTAGE_LIMIT),
            Msg(MSG_VOLTAGE, m.min_voltage))
    \o When(m.max_cht # None /\ Gt(m.max_cht, CHT_LIMIT), Msg(MSG_CHT, m.max_cht))
    \o When(m.wind_std # None /\ Gt(m.wind_std, WIND_STD_LIMIT), Msg(MSG_WIND, m.wind_std))
    \o When(m.gnss_error # None /\ Gt(m.gnss_error, GNSS_LIMIT), Msg(MSG_GNSS, m.gnss_error))
    \o When(m.fuel_used # None /\ Lt(m.fuel_used, FUEL_LIMIT), Msg(MSG_FUEL, None))

----------------------------------------------------------------------------
(* ReportGenerationManager._compute_metrics_for_df *)

LogAnalytics(name, duration_s, distance_km, sample_count, max_altitude, min_altitude, max_roll, max_pitch, max_yaw_rate, vertical_speed_peak, min_voltage, max_cht, avg_asi, wind_std, fuel_used, gnss_error, anomalies) ==
    [name |-> name, duration_s |-> duration_s, distance_km |-> distance_km,
     sample_count |-> sample_count, max_altitude |-> max_altitude,
     min_altitude |-> min_altitude, max_roll |-> max_roll, max_pitch |-> max_pitch,
     max_yaw_rate |-> max_yaw_rate, vertical_speed_peak |-> vertical_speed_peak,
     min_voltage |-> min_voltage, max_cht |-> max_cht, avg_asi |-> avg_asi,
     wind_std |-> wind_std, fuel_used |-> fuel_used, gnss_error |-> gnss_error,
     anomalies |-> anomalies]

\* The placeholder with an empty anomaly list.
EmptyLogAnalytics_quiet(log_name) ==
    LogAnalytics(log_name, 0, 0, 0, None, None, None, None, None, None, None, None,
                 None, None, None, None, <<>>)

\* The placeholder of lines 214-232.
EmptyLogAnalytics(log_name) ==
    LogAnalytics(log_name, 0, 0, 0, None, None, None, None, None, None, None, None,
                 None, None, None, None, <<Msg(MSG_NO_DATA, None)>>)

ValidTimestamps(df) == dropna(df.c["Timestamp"])

HasDuration(df) == "Timestamp" \in Columns(df) /\ Len(ValidTimestamps(df)) >= 2

\* (last - first).total_seconds() needs two datetimes: text (or a plain
\* number) in the first or last valid cell raises TypeError/AttributeError.
DurationRaises(df) ==
    /\ HasDuration(df)
    /\ LET ts == ValidTimestamps(df) IN ts[1].k # "dt" \/ ts[Len(ts)].k # "dt"

Duration(df) ==
    IF HasDuration(df)
    THEN LET ts == ValidTimestamps(df) IN ts[Len(ts)].v - ts[1].v
    ELSE 0

\* Whether the call ends in an exception instead of a LogAnalytics.
_compute_metrics_raises(df) ==
    /\ ~(df.isNone \/ IsEmpty(df))
    /\ \/ DurationRaises(df)
       \/ _compute_rate_raises(df, "Yaw")
       \/ _compute_rate_raises(df, "AltitudeAbs")

_compute_metrics_for_df(log_name, df) ==
    IF df.isNone \/ IsEmpty(df) THEN EmptyLogAnalytics(log_name)
    ELSE LET duration_s == Duration(df)
             distance_km == _compute_distance(df)
             max_altitude == _safe_series_max(df, "AltitudeAbs")
             min_altitude == _safe_series_min(df, "AltitudeAbs")
             max_roll == _safe_series_absmax(df, "Roll")
             max_pitch == _safe_series_absmax(df, "Pitch")
             max_yaw_rate == _compute_rate(df, "Yaw")
             vertical_speed_peak == _compute_rate(df, "AltitudeAbs")
             min_voltage == _safe_series_min(df, "Voltage")
             max_cht == _safe_series_max(df, "CHT")
             avg_asi == _safe_series_mean(df, "ASI")
             wind_std == _safe_series_std(df, "WSI")
             fuel_used == _compute_fuel(df)
             gnss_error == _safe_series_max(df, "GNSS_AltError")
             anomalies == _detect_anomalies(
                 [max_roll |-> max_roll, max_pitch |-> max_pitch,
                  max_yaw_rate |-> max_yaw_rate,
                  vertical_speed_peak |-> vertical_speed_peak,
                  min_voltage |-> min_voltage, max_cht |-> max_cht,
                  wind_std |-> wind_std, gnss_error |-> gnss_error,
                  fuel_used |-> fuel_used])
         IN  LogAnalytics(log_name, duration_s, distance_km, df.n, max_altitude,
                          min_altitude, max_roll, max_pitch, max_yaw_rate,
                          vertical_speed_peak, min_voltage, max_cht, avg_asi, wind_std,
                          fuel_used, gnss_error, anomalies)

----------------------------------------------------------------------------
(* ReportGenerationManager._build_analytics.  log_data is the dict as the  *)
(* sequence of its items, in insertion order.                              *)

Item(log_name, df) == [name |-> log_name, df |-> df]

\* sum(durations) / 3600.0, kept exact as numerator and denominator
SECONDS_PER_HOUR == 3600
\* The quotient taken the wrong way round.
Ratio_inverted(num, den) == [num |-> den, den |-> num]

Ratio(num, den) == [num |-> num, den |-> den]

\* A list that is assigned per log instead of extended: the last log's only.
Flatten_last(ss) == IF ss = <<>> THEN <<>> ELSE ss[Len(ss)]

RECURSIVE Flatten(_)
Flatten(ss) == IF ss = <<>> THEN <<>> ELSE Head(ss) \o Flatten(Tail(ss))

\* f"{log_name}: {msg}"
Prefixed(log_name, msg) == [log |-> log_name, msg |-> msg]

\* The loop has no try/except: the first log whose metrics raise ends it,
\* and the exception leaves _build_analytics.
_build_analytics_raises(log_data) ==
    \E i \in DOMAIN log_data : _compute_metrics_raises(log_data[i].df)

_build_analytics(log_data, active_log) ==
    LET per_log == [i \in DOMAIN log_data |->
                       _compute_metrics_for_df(log_data[i].name, log_data[i].df)]
        durations == [i \in DOMAIN per_log |-> per_log[i].duration_s]
        distances == [i \in DOMAIN per_log |-> per_log[i].distance_km]
        global_anomalies ==
            Flatten([i \in DOMAIN per_log |->
                        [j \in DOMAIN per_log[i].anomalies |->
                            Prefixed(log_data[i].name, per_log[i].anomalies[j])]])
        fleet_summary ==
            [total_logs |-> Len(per_log),
             total_hours |-> Ratio(SumSeq(durations), SECONDS_PER_HOUR),
             total_distance |-> SumSeq(distances),
             active_log |-> active_log,
             max_distance |-> IF distances # <<>>
                              THEN MaxOf({distances[i] : i \in DOMAIN distances})
                              ELSE 0]
    IN  [fleet_summary |-> fleet_summary, per_log |-> per_log,
         global_anomalies |-> global_anomalies]

----------------------------------------------------------------------------
(* ReportGenerationManager: construction *)

\* Neither function is being called.
DetIdle == dargs = None /\ danoms = <<>> /\ dpc = "idle"

MetIdle == cur_df = NoneDf /\ metrics = None /\ mpc = "idle"

FmtIdle == fmt_in = None /\ fmt_out = "" /\ fpc = "idle"

\* No call of _format_pair is being made.
PairIdle == pair_call = [first |-> None, second |-> None, out |-> "", pc |-> "idle"]

\* No image is being drawn.
ImageIdle == image_call = [img_w |-> 0, img_h |-> 0, box |-> None, pc |-> "idle"]
\* ReportGenerationManager.__init__ (report_generator.py lines 67-70)
ManagerIdle == manager = [calls |-> 0, frames |-> <<>>, threads |-> <<>>, _thread |-> 0, replaced |-> {}]
\* LogDownloadDialog.__init__ and _build_ui (log_download_dialog.py lines
\* 88-135, 162, 229): the program page, nothing chosen, only btn_close enabled.
NewDialog ==
    [visible |-> TRUE, page |-> "program", program_chosen |-> FALSE,
     selected_program |-> FALSE, all_flights |-> 0, shown |-> 0, picked |-> 0,
     _is_busy |-> FALSE, btn_back |-> FALSE, btn_close |-> TRUE,
     btn_program_continue |-> FALSE, btn_download |-> FALSE, workers |-> <<>>]

DialogIdle == dialog = NewDialog
\* No SharePointDownloadWorker has been created.
DownloaderIdle == downloader = [flights |-> 0, missing |-> {}, root_valid |-> FALSE, pc |-> "idle", signals |-> <<>>]
\* StandardPlotsWidget.__init__ (standard_plots_widget.py lines 29-32, 66):
\* nothing queued or remembered, and the first page, of _render_empty, loading.
NewPlotsWidget ==
    [_web_ready |-> FALSE, _pending_js |-> <<>>, _last_cursor_ms |-> None,
     _last_window |-> None, executed |-> <<>>, loading |-> TRUE, loads |-> 1, updates |-> 0]

PlotsIdle == plots_widget = NewPlotsWidget

NoAnalytics == _build_analytics(<<>>, "")

\* __init__: no thread and no worker; generate_pdf has not been called.
PipeIdle ==
    /\ cur_log_data = <<>> /\ gpc = "idle" /\ gen_result = "none"
    /\ plot_sections = <<>> /\ map_sections = <<>> /\ analytics = NoAnalytics
    /\ events = <<>> /\ thread = "none" /\ wpc = "none" /\ pages = <<>>
    /\ queued = "none" /\ file = "absent"

AuxIdle == PairIdle /\ ImageIdle /\ ManagerIdle /\ DialogIdle /\ DownloaderIdle /\ PlotsIdle

BaseIdle == DetIdle /\ MetIdle /\ PipeIdle /\ FmtIdle

----------------------------------------------------------------------------
(* ReportGenerationManager.generate_pdf.  QApplication.processEvents() at  *)
(* lines 89, 93 and 97 divides the call into four steps.                   *)

Emit(what) == events' = Append(events, what)

ImageSection(group, idx) == [group |-> group, idx |-> idx]

\* One section per FigureCanvas found in the two tabs, standard tab first.
_capture_plot_sections(n_standard, n_all) ==
    [i \in 1..n_standard |-> ImageSection("Graficos padrao", i)]
    \o [i \in 1..n_all |-> ImageSection("Todos os graficos", i)]

target_zoom == <<18, 16, 13>>

_capture_map_sections(map_ok) ==
    IF ~map_ok THEN <<>>
    ELSE [i \in DOMAIN target_zoom |-> ImageSection("Mapas", target_zoom[i])]

\* Lines 84-89 without the test of line 84: the call goes on to capture.
GeneratePdf_nocheck(ld, file0) ==
    /\ gpc = "idle" /\ gen_result = "none"
    /\ cur_log_data' = ld
    /\ file' = file0
    /\ Emit("status")
    /\ gpc' = "capture_plots"
    /\ UNCHANGED <<gen_result, plot_sections, map_sections, analytics, wrkVars, detVars, metVars, fmtVars, auxVars>>

\* Lines 84-89.  file0 is the file at file_path as the call finds it.
GeneratePdf(ld, file0) ==
    /\ gpc = "idle" /\ gen_result = "none"
    /\ cur_log_data' = ld
    /\ file' = file0
    /\ IF ld = <<>>
       THEN /\ Emit("error")
            /\ gen_result' = "rejected"
            /\ UNCHANGED gpc
       ELSE /\ Emit("status")
            /\ gpc' = "capture_plots"
            /\ UNCHANGED gen_result
    /\ UNCHANGED <<plot_sections, map_sections, analytics, wrkVars, detVars, metVars, fmtVars, auxVars>>

\* Lines 90-93.
CapturePlots(n_standard, n_all) ==
    /\ gpc = "capture_plots"
    /\ plot_sections' = _capture_plot_sections(n_standard, n_all)
    /\ events' = events \o <<"capture_plots", "status">>
    /\ gpc' = "capture_maps"
    /\ UNCHANGED <<cur_log_data, gen_result, map_sections, analytics, wrkVars, file, detVars, metVars, fmtVars, auxVars>>

\* Lines 94-97.
CaptureMaps(map_ok) ==
    /\ gpc = "capture_maps"
    /\ map_sections' = _capture_map_sections(map_ok)
    /\ events' = events \o <<"capture_maps", "status">>
    /\ gpc' = "analytics"
    /\ UNCHANGED <<cur_log_data, gen_result, plot_sections, analytics, wrkVars, file, detVars, metVars, fmtVars, auxVars>>

\* current_log_name, supplied by the caller: the first loaded log.
CurrentLogName(ld) == IF ld = <<>> THEN "" ELSE ld[1].name

\* Lines 98-123 with the aggregation moved behind the start of the thread.
BuildAndStart_late ==
    /\ gpc = "analytics"
    /\ gpc' = "idle"
    /\ IF _build_analytics_raises(cur_log_data)
       THEN /\ gen_result' = "raised"
            /\ UNCHANGED <<analytics, wrkVars, events>>
       ELSE /\ analytics' = _build_analytics(cur_log_data, CurrentLogName(cur_log_data))
            /\ gen_result' = "started"
            /\ thread' = "running"
            /\ wpc' = "begin"
            /\ events' = events \o <<"started", "thread.start", "build_analytics">>
            /\ UNCHANGED <<pages, queued>>
    /\ UNCHANGED <<cur_log_data, plot_sections, map_sections, file, detVars, metVars, fmtVars, auxVars>>

\* Lines 98-123: an exception of _build_analytics leaves generate_pdf;
\* otherwise the thread and worker are created, started is emitted and the
\* thread is started.
BuildAndStart ==
    /\ gpc = "analytics"
    /\ gpc' = "idle"
    /\ IF _build_analytics_raises(cur_log_data)
       THEN /\ gen_result' = "raised"
            /\ UNCHANGED <<analytics, wrkVars, events>>
       ELSE /\ analytics' = _build_analytics(cur_log_data, CurrentLogName(cur_log_data))
            /\ gen_result' = "started"
            /\ thread' = "running"
            /\ wpc' = "begin"
            /\ events' = events \o <<"build_analytics", "started", "thread.start">>
            /\ UNCHANGED <<pages, queued>>
    /\ UNCHANGED <<cur_log_data, plot_sections, map_sections, file, detVars, metVars, fmtVars, auxVars>>

----------------------------------------------------------------------------
(* PdfReportWorker: number-to-text helpers (pdf_reporter.py lines 235-265). *)
(* Texts are the strings the code builds, with accents and symbols written  *)
(* in ASCII.                                                                *)

ND == "N/D"

\* f"{x:.1f}" and f"{x:.2f}" of a float whose value is a whole number of
\* the model's unit, or inf/nan.
Fixed(x, zeros) ==
    IF x.k = "fin" THEN ToString(x.v) \o "." \o zeros
    ELSE IF x.k = "pinf" THEN "inf"
    ELSE IF x.k = "ninf" THEN "-inf"
    ELSE "nan"

\* The argument of _format_duration is a float number of seconds.  It is
\* held as a whole number of 1/32 s: such values are exact doubles, so
\* divmod and the rounding of the format are exact as well.
TICKS_PER_SECOND == 32
SECONDS_PER_MINUTE == 60
MINUTES_PER_HOUR == 60

Seconds(n) == Fin(n * TICKS_PER_SECOND)

\* f"{n:02d}" for n >= 0
Pad2(n) == IF n < 10 THEN "0" \o ToString(n) ELSE ToString(n)

\* Rounding of num/den (num >= 0, den > 0) to the nearest integer, ties to
\* the even one: what a float format does with an exactly known value.
RoundHalfEven(num, den) ==
    LET q == num \div den
        r == num % den
    IN  IF 2 * r < den THEN q
        ELSE IF 2 * r > den THEN q + 1
        ELSE IF q % 2 = 0 THEN q ELSE q + 1

\* f"{sec:04.1f}" for sec >= 0 given as its number of tenths after rounding
Pad4(tenths) ==
    (IF tenths < 100 THEN "0" ELSE "") \o ToString(tenths \div 10) \o "."
        \o ToString(tenths % 10)

\* As lines 239-240 with the second divmod left out: mins stays the total.
DurationFields_total(seconds) ==
    LET mins == seconds.v \div (SECONDS_PER_MINUTE * TICKS_PER_SECOND)
        sec == seconds.v % (SECONDS_PER_MINUTE * TICKS_PER_SECOND)
    IN  [hours |-> mins \div MINUTES_PER_HOUR, mins |-> mins,
         tenths |-> RoundHalfEven(sec * 10, TICKS_PER_SECOND)]

\* Lines 239-241: the two divmod calls, and sec as the format rounds it.
DurationFields(seconds) ==
    LET mins == seconds.v \div (SECONDS_PER_MINUTE * TICKS_PER_SECOND)
        sec == seconds.v % (SECONDS_PER_MINUTE * TICKS_PER_SECOND)
    IN  [hours |-> mins \div MINUTES_PER_HOUR, mins |-> mins % MINUTES_PER_HOUR,
         tenths |-> RoundHalfEven(sec * 10, TICKS_PER_SECOND)]

DurationText(hours, mins, tenths) ==
    Pad2(hours) \o "h " \o Pad2(mins) \o "min " \o Pad4(tenths) \o "s"

_format_duration(seconds) ==
    IF seconds = None \/ seconds.v = 0 \/ seconds.v <= 0 THEN ND
    ELSE LET f == DurationFields(seconds) IN DurationText(f.hours, f.mins, f.tenths)

_format_float(value, unit) ==
    IF value = None \/ value.k = "nan" THEN ND
    ELSE Fixed(value, "00") \o " " \o unit

_format_interval(max_value, min_value, unit) ==
    IF max_value = None /\ min_value = None THEN ND
    ELSE IF min_value = None THEN "Ate " \o Fixed(max_value, "0") \o " " \o unit
    ELSE IF max_value = None THEN "A partir de " \o Fixed(min_value, "0") \o " " \o unit
    ELSE Fixed(min_value, "0") \o " - " \o Fixed(max_value, "0") \o " " \o unit

\* As lines 263-264 with both sides tested against the first argument.
_format_pair_first(first, second, unit) ==
    IF first = None /\ second = None THEN ND
    ELSE LET left == IF first = None THEN ND ELSE Fixed(first, "0")
             right == IF first = None THEN ND ELSE Fixed(second, "0")
         IN  left \o "/" \o right \o " " \o unit

_format_pair(first, second, unit) ==
    IF first = None /\ second = None THEN ND
    ELSE LET left == IF first = None THEN ND ELSE Fixed(first, "0")
             right == IF second = None THEN ND ELSE Fixed(second, "0")
         IN  left \o "/" \o right \o " " \o unit

----------------------------------------------------------------------------
(* PdfReportWorker.run, in the worker thread *)

Page(kind, idx) == [kind |-> kind, idx |-> idx]

SEC_SUMMARY == "Resumo executivo"
SEC_FAULTS == "Indicadores de integridade e falhas"
SEC_PER_LOG == "Diagnostico detalhado por log"
SEC_PLOTS == "Painel visual - graficos padrao e completos"
SEC_MAPS == "Mapas, vento e trajetoria consolidada"

\* Lines 41-49 with the plot entry appended whether there are plots or not.
Sections_always(plots, maps) ==
    <<SEC_SUMMARY, SEC_FAULTS, SEC_PER_LOG>>
    \o <<SEC_PLOTS>>
    \o (IF maps # <<>> THEN <<SEC_MAPS>> ELSE <<>>)

\* Lines 41-49: the list handed to _create_table_of_contents.
Sections(plots, maps) ==
    <<SEC_SUMMARY, SEC_FAULTS, SEC_PER_LOG>>
    \o (IF plots # <<>> THEN <<SEC_PLOTS>> ELSE <<>>)
    \o (IF maps # <<>> THEN <<SEC_MAPS>> ELSE <<>>)

\* Lines 87-95: one line f"{idx}. {section}" per section, idx from 1.
_create_table_of_contents(sections) ==
    [kind |-> "toc", idx |-> 1,
     lines |-> [idx \in DOMAIN sections |-> ToString(idx) \o ". " \o sections[idx]]]

\* Lines 159-172: the twelve (label, value) rows of one log's page.
Rows(entry) ==
    << <<"Duracao", _format_duration(Seconds(entry.duration_s))>>,
       <<"Distancia estimada", _format_float(Fin(entry.distance_km), "km")>>,
       <<"Altitude", _format_interval(entry.max_altitude, entry.min_altitude, "m")>>,
       <<"Roll/Pitch maximo", _format_pair(entry.max_roll, entry.max_pitch, "deg")>>,
       <<"Taxa de guinada pico", _format_float(entry.max_yaw_rate, "deg/s")>>,
       <<"Razao vertical pico", _format_float(entry.vertical_speed_peak, "m/s")>>,
       <<"Tensao minima", _format_float(entry.min_voltage, "V")>>,
       <<"CHT maximo", _format_float(entry.max_cht, "degC")>>,
       <<"Velocidade media (ASI)", _format_float(entry.avg_asi, "m/s")>>,
       <<"Variabilidade do vento", _format_float(entry.wind_std, "sigma m/s")>>,
       <<"Combustivel consumido", _format_float(entry.fuel_used, "unid")>>,
       <<"Erro GNSS alt", _format_float(entry.gnss_error, "m")>> >>

\* Lines 153-187: one page per entry of per_log, in order, with its title,
\* its rows and its anomaly list.
_create_per_log_pages(per_log) ==
    [i \in DOMAIN per_log |->
        [kind |-> "log", idx |-> i, title |-> per_log[i].name,
         rows |-> Rows(per_log[i]), warnings |-> per_log[i].anomalies]]

Step(from, to, new_pages) ==
    /\ thread = "running" /\ wpc = from
    /\ wpc' = to
    /\ pages' = pages \o new_pages
    /\ UNCHANGED <<genVars, thread, queued, file, events, detVars, metVars, fmtVars, auxVars>>

\* Lines 38-49
RunBegin ==
    /\ thread = "running" /\ wpc = "begin"
    /\ wpc' = "title"
    /\ Emit("run")
    /\ UNCHANGED <<genVars, thread, pages, queued, file, detVars, metVars, fmtVars, auxVars>>

CreateTitlePage == Step("title", "toc", <<Page("title", 1)>>)
CreateTableOfContents ==
    Step("toc", "summary", <<_create_table_of_contents(Sections(plot_sections, map_sections))>>)
CreateSummaryPage == Step("summary", "faults", <<Page("summary", 1)>>)
CreateFaultsPage == Step("faults", "per_log", <<Page("faults", 1)>>)
\* As _create_per_log_pages, but only the first log gets a page.
CreatePerLogPages_first ==
    Step("per_log", "plots", SubSeq(_create_per_log_pages(analytics.per_log), 1, 1))

CreatePerLogPages == Step("per_log", "plots", _create_per_log_pages(analytics.per_log))
AddPlotCollection ==
    Step("plots", "maps", [i \in DOMAIN plot_sections |-> Page("plot", i)])
AddMapCollection ==
    Step("maps", "save", [i \in DOMAIN map_sections |-> Page("map", i)])

Composing == {"begin", "title", "toc", "summary", "faults", "per_log", "plots", "maps"}

\* Line 59, pdf.save() returning: canvas.Canvas(file_path) has opened
\* nothing; save() opens file_path for writing and writes the document.
Save ==
    /\ wpc = "save"
    /\ file' = "complete"
    /\ wpc' = "emit"
    /\ Emit("save")
    /\ UNCHANGED <<genVars, thread, pages, queued, detVars, metVars, fmtVars, auxVars>>

\* Line 60
EmitFinished ==
    /\ wpc = "emit"
    /\ queued' = "finished"
    /\ wpc' = "done"
    /\ Emit("worker.finished")
    /\ UNCHANGED <<genVars, thread, pages, file, detVars, metVars, fmtVars, auxVars>>

\* Lines 61-62, for an exception raised while the pages are composed.
RunExcept ==
    /\ thread = "running" /\ wpc \in Composing
    /\ queued' = "error"
    /\ wpc' = "done"
    /\ Emit("worker.error")
    /\ UNCHANGED <<genVars, thread, pages, file, detVars, metVars, fmtVars, auxVars>>

\* pdf.save() raising with no handler around it: run ends, nothing emitted.
SaveExcept_escapes ==
    /\ wpc = "save"
    /\ \E f \in {file, "truncated"} : file' = f
    /\ wpc' = "done"
    /\ UNCHANGED <<genVars, thread, pages, queued, events, detVars, metVars, fmtVars, auxVars>>

\* Lines 61-62, for an exception raised by pdf.save(): either the file
\* could not be opened and is as it was, or it was opened (and so emptied)
\* and the write did not complete.
SaveExcept ==
    /\ wpc = "save"
    /\ \E f \in {file, "truncated"} : file' = f
    /\ queued' = "error"
    /\ wpc' = "done"
    /\ Emit("worker.error")
    /\ UNCHANGED <<genVars, thread, pages, detVars, metVars, fmtVars, auxVars>>

----------------------------------------------------------------------------
(* The worker's signals, delivered by the manager's event loop             *)
(* (report_generator.py lines 116-120).                                    *)

\* worker.finished: manager.finished.emit, thread.quit, worker.deleteLater
OnWorkerFinished ==
    /\ queued = "finished" /\ gpc = "idle"
    /\ queued' = "delivered"
    /\ thread' = "quitting"
    /\ Emit("finished")
    /\ UNCHANGED <<genVars, wpc, pages, file, detVars, metVars, fmtVars, auxVars>>

\* worker.error: manager.error.emit
OnWorkerError ==
    /\ queued = "error" /\ gpc = "idle"
    /\ queued' = "delivered"
    /\ Emit("error")
    /\ UNCHANGED <<genVars, thread, wpc, pages, file, detVars, metVars, fmtVars, auxVars>>

\* thread.finished: thread.deleteLater
ThreadFinished ==
    /\ thread = "quitting"
    /\ thread' = "finished"
    /\ UNCHANGED <<genVars, wpc, pages, queued, file, events, detVars, metVars, fmtVars, auxVars>>

----------------------------------------------------------------------------
(* Specification Spec: one generate_pdf call on a new manager, and the     *)
(* render it starts.                                                       *)

MaxLogs == 2
MaxCanvases == 1

LogNames == <<"log1", "log2", "log3", "log4">>

NominalDf ==
    DataFrame(2, ("Timestamp" :> <<Dt(0), Dt(5)>>) @@ ("Roll" :> <<Fin(10), Fin(-20)>>)
                 @@ ("Latitude" :> <<Fin(0), Fin(1)>>) @@ ("Longitude" :> <<Fin(0), Fin(0)>>))
RollDf ==
    DataFrame(3, ("Timestamp" :> <<Dt(0), Dt(2), Dt(4)>>)
                 @@ ("Roll" :> <<Fin(10), Fin(-70), Fin(5)>>)
                 @@ ("WSI" :> <<Fin(3), Fin(3), Fin(3)>>))
EmptyDf == DataFrame(0, ("Timestamp" :> <<>>) @@ ("Roll" :> <<>>))
BadTimestampDf ==
    DataFrame(2, ("Timestamp" :> <<StrCell, StrCell>>) @@ ("Roll" :> <<Fin(10), Fin(20)>>))

LoadedTables == {NominalDf, RollDf, EmptyDf, NoneDf, BadTimestampDf}

LogCollections ==
    UNION {{[i \in 1..n |-> Item(LogNames[i], d[i])] : d \in [1..n -> LoadedTables]} :
              n \in 0..MaxLogs}

Init == DetIdle /\ MetIdle /\ PipeIdle /\ FmtIdle /\ AuxIdle

Next ==
    \/ \E ld \in LogCollections, file0 \in {"absent", "old"} : GeneratePdf(ld, file0)
    \/ \E n_standard \in 0..MaxCanvases, n_all \in 0..MaxCanvases :
           CapturePlots(n_standard, n_all)
    \/ \E map_ok \in BOOLEAN : CaptureMaps(map_ok)
    \/ BuildAndStart
    \/ RunBegin
    \/ CreateTitlePage
    \/ CreateTableOfContents
    \/ CreateSummaryPage
    \/ CreateFaultsPage
    \/ CreatePerLogPages
    \/ AddPlotCollection
    \/ AddMapCollection
    \/ Save
    \/ EmitFinished
    \/ RunExcept
    \/ SaveExcept
    \/ OnWorkerFinished
    \/ OnWorkerError
    \/ ThreadFinished

Spec == Init /\ [][Next]_vars

----------------------------------------------------------------------------
(* Specification SpecDetect: _detect_anomalies applied to every combination *)
(* of unknown values and values just below, at and just above each bound.  *)

Around(bound) == {None, Fin(bound - 1), Fin(bound), Fin(bound + 1)}

DetectInputs ==
    [max_roll : Around(ROLL_LIMIT),
     max_pitch : Around(PITCH_LIMIT),
     max_yaw_rate : Around(YAW_RATE_LIMIT),
     vertical_speed_peak : Around(VSPEED_LIMIT),
     min_voltage : Around(VOLTAGE_LIMIT),
     max_cht : Around(CHT_LIMIT),
     wind_std : Around(WIND_STD_LIMIT) \cup {NaN},   \* std() of one sample
     gnss_error : Around(GNSS_LIMIT),
     fuel_used : Around(FUEL_LIMIT)]

DetectInit ==
    dargs \in DetectInputs /\ danoms = <<>> /\ dpc = "call" /\ MetIdle /\ PipeIdle /\ FmtIdle /\ AuxIdle

DetectAnomalies ==
    /\ dpc = "call"
    /\ danoms' = _detect_anomalies(dargs)
    /\ dpc' = "done"
    /\ UNCHANGED <<dargs, metVars, pipeVars, fmtVars, auxVars>>

SpecDetect == DetectInit /\ [][DetectAnomalies]_vars

----------------------------------------------------------------------------
(* Specification SpecMetrics: _compute_metrics_for_df applied to sparse    *)
(* tables of at most MaxRows rows.  Each family of tables holds the        *)
(* columns one group of metrics reads; every other column is absent.       *)

MaxRows == 3

\* df is a table of the n rows x (and y) under the column a (and b).
OneCol(d, n, a, A) == \E x \in [1..n -> A] : d = DataFrame(n, a :> x)

TwoCol(d, n, a, A, b, B) ==
    \E x \in [1..n -> A], y \in [1..n -> B] : d = DataFrame(n, (a :> x) @@ (b :> y))

TimestampCells == {NaN, Dt(0), Dt(5), StrCell}
LatitudeCells == {NaN, Fin(0), Fin(1), Fin(95)}     \* 95: outside [-90, 90]
LongitudeCells == {NaN, Fin(0), Fin(1)}
NumericCells == {NaN, StrCell, Fin(-70), Fin(10), PInf, NInf}
FuelCells == {NaN, StrCell, Fin(1), Fin(3), PInf}
StatColumns == {"AltitudeAbs", "Roll", "Pitch", "Voltage", "CHT", "ASI", "WSI",
                "GNSS_AltError"}

IsMetricTable(d) ==
    \/ d \in {NoneDf, DataFrame(2, <<>>)}
    \/ \E n \in 0..MaxRows :
          \/ OneCol(d, n, "Timestamp", TimestampCells)
          \/ TwoCol(d, n, "Latitude", LatitudeCells, "Longitude", LongitudeCells)
          \/ TwoCol(d, n, "Timestamp", {NaN, Dt(0), Dt(2)}, "Yaw",
                    {NaN, StrCell, Fin(0), Fin(100), PInf})
          \/ TwoCol(d, n, "Timestamp", {NaN, Dt(0), Dt(2), StrCell}, "AltitudeAbs",
                    {NaN, Fin(0), Fin(20)})
          \/ \E col \in StatColumns : OneCol(d, n, col, NumericCells)
          \/ OneCol(d, n, "FuelLevel_anag", FuelCells)
          \/ OneCol(d, n, "FuelLevel_dig", FuelCells)
          \/ TwoCol(d, n, "FuelLevel_anag", FuelCells, "FuelLevel_dig", FuelCells)

MetricsInit ==
    IsMetricTable(cur_df) /\ metrics = None /\ mpc = "call" /\ DetIdle /\ PipeIdle /\ FmtIdle /\ AuxIdle

ComputeMetrics ==
    /\ mpc = "call"
    /\ IF _compute_metrics_raises(cur_df)
       THEN mpc' = "raised" /\ UNCHANGED metrics
       ELSE mpc' = "done" /\ metrics' = _compute_metrics_for_df("log", cur_df)
    /\ UNCHANGED <<cur_df, detVars, pipeVars, fmtVars, auxVars>>

SpecMetrics == MetricsInit /\ [][ComputeMetrics]_vars

----------------------------------------------------------------------------
(* Specification SpecFormat: _format_duration applied to a missing value    *)
(* and to durations within MaxOffset ticks (1/32 s) of 0 s, 1 min, 1 h and  *)
(* 1 h 1 min 1 s.                                                           *)

MaxOffset == 40

DurationBases == {0, 60, 3600, 3661}

DurationInputs ==
    {None} \cup {Fin(b * TICKS_PER_SECOND + o) : b \in DurationBases, o \in -MaxOffset..MaxOffset}

FormatInit ==
    fmt_in \in DurationInputs /\ fmt_out = "" /\ fpc = "call" /\ DetIdle /\ MetIdle /\ PipeIdle /\ AuxIdle

FormatDuration ==
    /\ fpc = "call"
    /\ fmt_out' = _format_duration(fmt_in)
    /\ fpc' = "done"
    /\ UNCHANGED <<fmt_in, detVars, metVars, pipeVars, auxVars>>

SpecFormat == FormatInit /\ [][FormatDuration]_vars

----------------------------------------------------------------------------
(* Claims *)

Fired(text) == \E i \in 1..Len(danoms) : danoms[i].text = text

\* C1: a threshold row's warning is emitted iff its value is known and
\* strictly crosses its bound (above for eight rows, below for min_voltage
\* and fuel_used); a value at the bound or an unknown value never fires, and
\* the rows are decided independently of each other.
C1_ThresholdIff ==
    dpc = "done" =>
        /\ Fired(MSG_ROLL) <=> (dargs.max_roll.k = "fin" /\ dargs.max_roll.v > 60)
        /\ Fired(MSG_PITCH) <=> (dargs.max_pitch.k = "fin" /\ dargs.max_pitch.v > 30)
        /\ Fired(MSG_YAW) <=> (dargs.max_yaw_rate.k = "fin" /\ dargs.max_yaw_rate.v > 45)
        /\ Fired(MSG_VSPEED) <=>
               (dargs.vertical_speed_peak.k = "fin" /\ dargs.vertical_speed_peak.v > 8)
        /\ Fired(MSG_VOLTAGE) <=> (dargs.min_voltage.k = "fin" /\ dargs.min_voltage.v < 21)
        /\ Fired(MSG_CHT) <=> (dargs.max_cht.k = "fin" /\ dargs.max_cht.v > 180)
        /\ Fired(MSG_WIND) <=> (dargs.wind_std.k = "fin" /\ dargs.wind_std.v > 5)
        /\ Fired(MSG_GNSS) <=> (dargs.gnss_error.k = "fin" /\ dargs.gnss_error.v > 5)
        /\ Fired(MSG_FUEL) <=> (dargs.fuel_used.k = "fin" /\ dargs.fuel_used.v < 0)

\* A call where one row fires, a second is exactly at its bound and a third
\* is unknown: only the first of the three is reported.
C1_Witness ==
    /\ dpc = "done"
    /\ dargs.max_roll = Fin(61) /\ dargs.max_pitch = Fin(30) /\ dargs.min_voltage = None
    /\ dargs.fuel_used = Fin(-1) /\ dargs.max_cht = Fin(179)
    /\ Fired(MSG_ROLL) /\ ~Fired(MSG_PITCH) /\ ~Fired(MSG_VOLTAGE)
    /\ Fired(MSG_FUEL) /\ ~Fired(MSG_CHT)

----------------------------------------------------------------------------
(* Claims about _compute_metrics_for_df (SpecMetrics) *)

ValidTimestampCount ==
    IF "Timestamp" \in DOMAIN cur_df.c
    THEN Cardinality({i \in 1..cur_df.n : cur_df.c["Timestamp"][i].k # "nan"})
    ELSE 0

\* C2: the duration of every table is >= 0, also when its timestamps are not
\* increasing, and it is 0 when the Timestamp column is absent or holds
\* fewer than two non-missing timestamps.
C2_DurationNonNegative ==
    mpc = "done" =>
        /\ metrics.duration_s >= 0
        /\ ValidTimestampCount < 2 => metrics.duration_s = 0

\* The table with row r put after row p (p = 0: in front).
InsertRow(df, p, r) ==
    DataFrame(df.n + 1,
              [col \in DOMAIN df.c |->
                  SubSeq(df.c[col], 1, p) \o <<r[col]>> \o SubSeq(df.c[col], p + 1, df.n)])

InvalidPairs ==
    {("Latitude" :> NaN) @@ ("Longitude" :> Fin(0)),
     ("Latitude" :> Fin(0)) @@ ("Longitude" :> NaN),
     ("Latitude" :> NaN) @@ ("Longitude" :> NaN),
     ("Latitude" :> Fin(95)) @@ ("Longitude" :> Fin(0))}

HasCoordinates == DOMAIN cur_df.c = {"Latitude", "Longitude"}

\* C3: distance_km is non-negative, and an invalid (missing or out-of-range)
\* lat/lon pair inserted anywhere in the table leaves distance_km as it is
\* without that row.
C3_DistanceIgnoresInvalidPairs ==
    (mpc = "done" /\ HasCoordinates) =>
        /\ metrics.distance_km >= 0
        /\ \A p \in 0..cur_df.n : \A r \in InvalidPairs :
               _compute_distance(InsertRow(cur_df, p, r)) = metrics.distance_km

OptionalMetrics ==
    {"max_altitude", "min_altitude", "max_roll", "max_pitch", "max_yaw_rate",
     "vertical_speed_peak", "min_voltage", "max_cht", "avg_asi", "wind_std",
     "fuel_used", "gnss_error"}

\* C4: every optional metric of a LogAnalytics is a finite number or None,
\* never NaN and never infinite.
C4_MetricsFiniteOrNone ==
    mpc = "done" => \A f \in OptionalMetrics : metrics[f].k \in {"fin", "none"}

----------------------------------------------------------------------------
(* Claims about generate_pdf and PdfReportWorker.run (Spec) *)

Has(what) == \E i \in DOMAIN events : events[i] = what
Count(what) == Cardinality({i \in DOMAIN events : events[i] = what})
Before(a, b) == Has(a) /\ Has(b) /\ \A i, j \in DOMAIN events :
                    (events[i] = a /\ events[j] = b) => i < j

\* C5: generate_pdf with an empty log collection emits error at once and
\* does nothing else: no capture, no analytics, no thread or worker, no
\* started signal, and the file at file_path is not written.
C5_EmptyInputRejected ==
    (cur_log_data = <<>> /\ events # <<>>) =>
        /\ events = <<"error">>
        /\ gen_result = "rejected" /\ gpc = "idle"
        /\ plot_sections = <<>> /\ map_sections = <<>>
        /\ analytics = NoAnalytics
        /\ thread = "none" /\ wpc = "none" /\ queued = "none" /\ pages = <<>>
        /\ file \in {"absent", "old"}

C5_Witness ==
    cur_log_data = <<>> /\ gen_result = "rejected" /\ events = <<"error">> /\ file = "old"

IsEmptyLog(i) == cur_log_data[i].df.isNone \/ cur_log_data[i].df.n = 0

\* C6: a log whose table is None or has no rows gets the placeholder record
\* (duration 0, distance 0, no samples, every optional metric unknown, the
\* single 'no valid data' anomaly); it never makes the batch fail, and the
\* batch yields one LogAnalytics per input log, in input order.
C6_EmptyLogPlaceholder ==
    /\ gen_result = "started" =>
        /\ Len(analytics.per_log) = Len(cur_log_data)
        /\ \A i \in DOMAIN cur_log_data :
            /\ analytics.per_log[i].name = cur_log_data[i].name
            /\ IsEmptyLog(i) =>
                /\ analytics.per_log[i].duration_s = 0
                /\ analytics.per_log[i].distance_km = 0
                /\ analytics.per_log[i].sample_count = 0
                /\ \A f \in OptionalMetrics : analytics.per_log[i][f] = None
                /\ Len(analytics.per_log[i].anomalies) = 1
                /\ analytics.per_log[i].anomalies[1].text = MSG_NO_DATA
    /\ gen_result = "raised" => \E i \in DOMAIN cur_log_data : ~IsEmptyLog(i)

C6_Witness ==
    /\ gen_result = "started" /\ Len(cur_log_data) = 2
    /\ cur_log_data[1].df.isNone
    /\ ~cur_log_data[2].df.isNone /\ cur_log_data[2].df.n = 3
    /\ analytics.per_log[1].anomalies = <<Msg(MSG_NO_DATA, None)>>
    /\ analytics.per_log[2].sample_count = 3

\* C7: a log whose metrics cannot be computed does not stop the others: once
\* generate_pdf has returned for a non-empty collection the render has been
\* started, with every log whose metrics can be computed in per_log.
C7_PerLogFailuresIsolated ==
    (cur_log_data # <<>> /\ gpc = "idle" /\ gen_result # "none") =>
        /\ gen_result = "started"
        /\ \A i \in DOMAIN cur_log_data :
               ~_compute_metrics_raises(cur_log_data[i].df) =>
                   \E j \in DOMAIN analytics.per_log :
                       analytics.per_log[j].name = cur_log_data[i].name

Outcomes == Count("worker.finished") + Count("worker.error")

\* C8: run ends with exactly one outcome, finished after the document was
\* saved or error after a failure; never both, never none.
C8_ExactlyOneOutcome ==
    /\ Outcomes <= 1
    /\ wpc = "done" => Outcomes = 1
    /\ Outcomes = 1 => wpc = "done"
    /\ Has("worker.finished") => (Before("save", "worker.finished") /\ file = "complete")
    /\ Has("worker.error") => ~Has("save")

C8_Witness ==
    /\ wpc = "done" /\ Has("worker.error") /\ ~Has("worker.finished")
    /\ Len(pages) >= 4 /\ file = "truncated"

\* C9: after a failed run the file at file_path is as it was before (absent
\* or the old file) or a completely saved document, never a truncated one,
\* and it is a complete new document only if finished was emitted.
C9_NoPartialFile ==
    wpc = "done" =>
        /\ file \in {"absent", "old", "complete"}
        /\ file = "complete" => Has("worker.finished")

Outcome(e) == e \in {"finished", "error", "worker.finished", "worker.error"}
Preparation(e) == e \in {"capture_plots", "capture_maps", "build_analytics"}

\* C10: for a non-empty collection, plot capture, map capture and the
\* aggregation are done, in that order, before the worker thread is started;
\* started is emitted before any outcome of the render; and nothing is
\* captured or aggregated once the thread runs.
C10_PrepareBeforeRender ==
    cur_log_data # <<>> =>
        /\ Has("thread.start") =>
            /\ Before("capture_plots", "capture_maps")
            /\ Before("capture_maps", "build_analytics")
            /\ Before("build_analytics", "thread.start")
        /\ \A i \in DOMAIN events :
            /\ Outcome(events[i]) => \E j \in 1..(i - 1) : events[j] = "started"
            /\ Preparation(events[i]) => \A j \in 1..(i - 1) : events[j] # "thread.start"
        /\ wpc # "none" => Has("thread.start")

C10_Witness ==
    /\ Has("finished") /\ Len(plot_sections) = 2 /\ Len(map_sections) = 3
    /\ Len(cur_log_data) = 2 /\ thread = "finished"

----------------------------------------------------------------------------
(* Claims about the pages of the document (Spec) *)

PageIds == [i \in DOMAIN pages |-> <<pages[i].kind, pages[i].idx>>]

ExpectedPageIds ==
    << <<"title", 1>>, <<"toc", 1>>, <<"summary", 1>>, <<"faults", 1>> >>
    \o [i \in 1..Len(cur_log_data) |-> <<"log", i>>]
    \o [i \in 1..Len(plot_sections) |-> <<"plot", i>>]
    \o [i \in 1..Len(map_sections) |-> <<"map", i>>]

\* C11: the pages come in the order title, table of contents, summary,
\* faults, one page per log in per_log order, one per plot section in list
\* order, one per map section in list order; a saved document has
\* 4 + logs + plots + maps pages, and no map page precedes a plot page.
C11_PageOrder ==
    /\ Len(pages) <= Len(ExpectedPageIds)
    /\ PageIds = SubSeq(ExpectedPageIds, 1, Len(pages))
    /\ \A i \in DOMAIN pages :
           pages[i].kind = "log" => pages[i].title = analytics.per_log[pages[i].idx].name
    /\ \A i, j \in DOMAIN pages : (pages[i].kind = "map" /\ pages[j].kind = "plot") => j < i
    /\ Has("save") =>
           /\ PageIds = ExpectedPageIds
           /\ Len(pages) = 4 + Len(analytics.per_log) + Len(plot_sections) + Len(map_sections)

C11_Witness ==
    /\ Has("worker.finished") /\ Len(pages) = 11
    /\ Len(analytics.per_log) = 2 /\ Len(plot_sections) = 2 /\ Len(map_sections) = 3
    /\ pages[5].title = "log1" /\ pages[6].title = "log2"
    /\ pages[8].kind = "plot" /\ pages[9].kind = "map"

TocLines == pages[2].lines
Listed(section) == \E i \in DOMAIN TocLines : TocLines[i] = ToString(i) \o ". " \o section
Rendered(kind) == \E i \in DOMAIN pages : pages[i].kind = kind

\* C12: the table of contents lists summary, faults and per-log diagnostics
\* as entries 1 to 3, then the plot gallery iff there are plot sections, then
\* the map gallery iff there are map sections, numbered consecutively from 1;
\* in a saved document a gallery is listed iff it has at least one page.
C12_TableOfContents ==
    Len(pages) >= 2 =>
        /\ pages[2].kind = "toc"
        /\ SubSeq(TocLines, 1, 3) =
               <<"1. Resumo executivo", "2. Indicadores de integridade e falhas",
                 "3. Diagnostico detalhado por log">>
        /\ Listed(SEC_PLOTS) <=> plot_sections # <<>>
        /\ Listed(SEC_MAPS) <=> map_sections # <<>>
        /\ Len(TocLines) = 3 + (IF plot_sections # <<>> THEN 1 ELSE 0)
                             + (IF map_sections # <<>> THEN 1 ELSE 0)
        /\ (plot_sections # <<>> /\ map_sections # <<>>) =>
               (TocLines[4] = "4. " \o SEC_PLOTS /\ TocLines[5] = "5. " \o SEC_MAPS)
        /\ Has("save") =>
               /\ Listed(SEC_PLOTS) <=> Rendered("plot")
               /\ Listed(SEC_MAPS) <=> Rendered("map")

\* A saved document with maps and no plots: the map gallery is entry 4.
C12_Witness ==
    /\ Has("save") /\ plot_sections = <<>> /\ Len(map_sections) = 3
    /\ Len(TocLines) = 4 /\ TocLines[4] = "4. Mapas, vento e trajetoria consolidada"
    /\ Rendered("map") /\ ~Rendered("plot")

----------------------------------------------------------------------------
(* Claims about _build_analytics (Spec) *)

PerLog == analytics.per_log
Fleet == analytics.fleet_summary
AnomalyCount(i) == Len(PerLog[i].anomalies)
Offset(i) == SumSeq([k \in 1..(i - 1) |-> AnomalyCount(k)])

\* C13: global_anomalies is the per-log anomaly lists joined in log order,
\* each log's own order kept and every entry prefixed with its log's name;
\* its length is the sum of the per-log counts.  Two logs of which only the
\* first exceeds the roll threshold give exactly one entry, under the first
\* log's name.
C13_GlobalAnomalies ==
    gen_result = "started" =>
        /\ Len(analytics.global_anomalies) = SumSeq([i \in DOMAIN PerLog |-> AnomalyCount(i)])
        /\ \A i \in DOMAIN PerLog : \A j \in 1..AnomalyCount(i) :
               analytics.global_anomalies[Offset(i) + j] =
                   [log |-> cur_log_data[i].name, msg |-> PerLog[i].anomalies[j]]
        /\ (Len(cur_log_data) = 2 /\ cur_log_data[1].df = RollDf
               /\ cur_log_data[2].df = NominalDf) =>
               analytics.global_anomalies = <<[log |-> "log1", msg |-> Msg(MSG_ROLL, Fin(70))]>>

\* Roll reaching 70 in the first log and a nominal second log.
C13_Witness ==
    /\ gen_result = "started" /\ Len(cur_log_data) = 2
    /\ cur_log_data[1].df = RollDf /\ cur_log_data[2].df = NominalDf
    /\ Len(analytics.global_anomalies) = 1
    /\ analytics.global_anomalies[1].log = "log1"
    /\ analytics.global_anomalies[1].msg.text = MSG_ROLL

\* C14: total_hours is the sum of the per-log duration_s divided by 3600,
\* total_logs the number of input logs, total_distance the sum of the
\* per-log distance_km, and active_log the identifier the caller passed.
C14_FleetSummary ==
    gen_result = "started" =>
        /\ Fleet.total_hours.den = 3600
        /\ Fleet.total_hours.num = SumSeq([i \in DOMAIN PerLog |-> PerLog[i].duration_s])
        /\ Fleet.total_logs = Len(cur_log_data)
        /\ Fleet.total_distance = SumSeq([i \in DOMAIN PerLog |-> PerLog[i].distance_km])
        /\ Fleet.active_log = CurrentLogName(cur_log_data)

\* Two logs of 5 s and 4 s: 9/3600 h.
C14_Witness ==
    /\ gen_result = "started" /\ Len(cur_log_data) = 2
    /\ PerLog[1].duration_s = 5 /\ PerLog[2].duration_s = 4
    /\ Fleet.total_hours = [num |-> 9, den |-> 3600]
    /\ Fleet.total_logs = 2 /\ Fleet.total_distance = 1 /\ Fleet.active_log = "log1"

\* C15: max_distance is the largest per-log distance_km, 0 for no logs, and
\* never more than total_distance.
C15_MaxDistance ==
    /\ _build_analytics(<<>>, "").fleet_summary.max_distance = 0
    /\ gen_result = "started" =>
        /\ \E i \in DOMAIN PerLog : Fleet.max_distance = PerLog[i].distance_km
        /\ \A i \in DOMAIN PerLog : PerLog[i].distance_km <= Fleet.max_distance
        /\ Fleet.max_distance <= Fleet.total_distance

\* Two logs of 1 km each: the maximum is 1 of a total of 2.
C15_Witness ==
    /\ gen_result = "started" /\ Len(cur_log_data) = 2
    /\ PerLog[1].distance_km = 1 /\ PerLog[2].distance_km = 1
    /\ Fleet.max_distance = 1 /\ Fleet.total_distance = 2

----------------------------------------------------------------------------
(* Claims about the per-log page and the warning texts *)

\* C16: the page of a log with no rows shows "N/D" as the value of each of
\* its twelve rows and lists the 'no valid data' anomaly.
C16_EmptyLogPageAllND ==
    \A i \in DOMAIN pages :
        (pages[i].kind = "log" /\ IsEmptyLog(pages[i].idx)) =>
            /\ Len(pages[i].rows) = 12
            /\ \A r \in DOMAIN pages[i].rows : pages[i].rows[r][2] = "N/D"
            /\ \E w \in DOMAIN pages[i].warnings : pages[i].warnings[w].text = MSG_NO_DATA

\* The metric a warning text belongs to.
MetricOf(text) ==
    CASE text = MSG_ROLL -> "max_roll"
      [] text = MSG_PITCH -> "max_pitch"
      [] text = MSG_YAW -> "max_yaw_rate"
      [] text = MSG_VSPEED -> "vertical_speed_peak"
      [] text = MSG_VOLTAGE -> "min_voltage"
      [] text = MSG_CHT -> "max_cht"
      [] text = MSG_WIND -> "wind_std"
      [] text = MSG_GNSS -> "gnss_error"
      [] text = MSG_FUEL -> "fuel_used"

\* C17: every warning of _detect_anomalies carries the value of the metric
\* that triggered it, for each of the nine rows.
C17_MessagesCarryValue ==
    dpc = "done" =>
        \A i \in DOMAIN danoms :
            /\ danoms[i].value # None
            /\ danoms[i].value = dargs[MetricOf(danoms[i].text)]

----------------------------------------------------------------------------
(* Claims about _compute_fuel and _compute_rate (SpecMetrics) *)

\* The valid numeric readings of a column of the table, in row order; none
\* if the column is absent.
Readings(col) ==
    IF col \in DOMAIN cur_df.c
    THEN SelectSeq(cur_df.c[col], LAMBDA x : x.k \in {"fin", "pinf", "ninf"})
    ELSE <<>>

\* C18: fuel_used is first valid reading minus last valid reading of
\* FuelLevel_anag if that column has a valid reading, else of FuelLevel_dig
\* if that one has; a present column without valid readings is passed over;
\* the result is unknown iff neither column has a valid reading.
C18_FuelPriority ==
    mpc = "done" =>
        LET anag == Readings("FuelLevel_anag")
            dig == Readings("FuelLevel_dig")
        IN  /\ anag # <<>> => metrics.fuel_used = Sub(anag[1], anag[Len(anag)])
            /\ (anag = <<>> /\ dig # <<>>) => metrics.fuel_used = Sub(dig[1], dig[Len(dig)])
            /\ metrics.fuel_used = None <=> (anag = <<>> /\ dig = <<>>)

\* FuelLevel_anag present with text and missing cells only, FuelLevel_dig
\* reading 3, (missing), 1: the digital column decides, 3 - 1.
C18_Witness ==
    /\ mpc = "done" /\ DOMAIN cur_df.c = {"FuelLevel_anag", "FuelLevel_dig"}
    /\ cur_df.c["FuelLevel_anag"] = <<StrCell, NaN, NaN>>
    /\ cur_df.c["FuelLevel_dig"] = <<Fin(3), NaN, Fin(1)>>
    /\ metrics.fuel_used = Fin(2)

\* The rows of the table that have both a timestamp and a value in col.
Samples(col) ==
    {i \in 1..cur_df.n : cur_df.c["Timestamp"][i].k # "nan" /\ cur_df.c[col][i].k # "nan"}

\* The intervals between consecutive samples with a finite value difference
\* and a non-zero elapsed time.
RateIntervals(col) ==
    {p \in Samples(col) \X Samples(col) :
        /\ p[1] < p[2]
        /\ \A i \in Samples(col) : ~(p[1] < i /\ i < p[2])
        /\ cur_df.c[col][p[1]].k = "fin" /\ cur_df.c[col][p[2]].k = "fin"
        /\ cur_df.c["Timestamp"][p[1]].v # cur_df.c["Timestamp"][p[2]].v}

RateOver(col, p) ==
    Abs(cur_df.c[col][p[2]].v - cur_df.c[col][p[1]].v)
        \div Abs(cur_df.c["Timestamp"][p[2]].v - cur_df.c["Timestamp"][p[1]].v)

RateIs(col, r) ==
    IF IsEmpty(cur_df) \/ ~({col, "Timestamp"} \subseteq DOMAIN cur_df.c) THEN r = None
    ELSE IF Cardinality(Samples(col)) < 2 \/ RateIntervals(col) = {} THEN r = None
    ELSE /\ r.k = "fin"
         /\ \E p \in RateIntervals(col) : r.v = RateOver(col, p)
         /\ \A p \in RateIntervals(col) : RateOver(col, p) <= r.v

\* C19: a rate metric is the largest |value difference / elapsed time| over
\* consecutive samples having both a timestamp and a value, intervals of
\* zero elapsed time and non-finite rates left out (no division by zero);
\* it is unknown when the column or Timestamp is absent, fewer than two
\* samples remain, or no finite rate exists.
C19_RateMetrics ==
    mpc = "done" =>
        /\ RateIs("Yaw", metrics.max_yaw_rate)
        /\ RateIs("AltitudeAbs", metrics.vertical_speed_peak)

\* Yaw 0, 100, 0 at 0 s, 2 s, 2 s: the second interval has no duration and
\* is left out, the first gives 50.
C19_Witness ==
    /\ mpc = "done" /\ DOMAIN cur_df.c = {"Timestamp", "Yaw"}
    /\ cur_df.c["Timestamp"] = <<Dt(0), Dt(2), Dt(2)>>
    /\ cur_df.c["Yaw"] = <<Fin(0), Fin(100), Fin(0)>>
    /\ metrics.max_yaw_rate = Fin(50)

----------------------------------------------------------------------------
(* Claims about _format_duration (SpecFormat) *)

\* The text is hours, minutes and seconds h, m, t/10 in the layout
\* 'HHh MMmin SS.Ss', with m in 0..59, that recompose the duration to within
\* half a tenth of a second (compared in units of 1/320 s).
Recomposes(text, ticks) ==
    \E h \in 0..(ticks \div (3600 * TICKS_PER_SECOND) + 1), m \in 0..59, t \in 0..600 :
        /\ Abs((h * 3600 + m * 60) * 10 * TICKS_PER_SECOND + t * TICKS_PER_SECOND
                   - ticks * 10) * 2 <= TICKS_PER_SECOND
        /\ text = DurationText(h, m, t)

\* C20: a positive duration is rendered as 'HHh MMmin SS.Ss' whose fields
\* recompose it to one decimal, minutes within 0..59, and 3661.5 s is
\* rendered "01h 01min 01.5s"; zero, a negative or a missing duration is
\* rendered "N/D".
C20_DurationFormat ==
    fpc = "done" =>
        /\ (fmt_in = None \/ fmt_in.v <= 0) => fmt_out = "N/D"
        /\ (fmt_in # None /\ fmt_in.v > 0) => Recomposes(fmt_out, fmt_in.v)
        /\ fmt_in = Fin(117168) => fmt_out = "01h 01min 01.5s"

\* 3661.5 s = 117168 ticks.
C20_Witness ==
    fpc = "done" /\ fmt_in = Fin(3661 * TICKS_PER_SECOND + 16) /\ fmt_out = "01h 01min 01.5s"

----------------------------------------------------------------------------
(* PdfReportWorker._format_pair on its own (pdf_reporter.py lines 259-265): *)
(* one call with each argument None, NaN, infinite or a number.             *)

PairValues == {None, NaN, PInf, NInf, Fin(-70), Fin(0), Fin(10), Fin(30)}
PAIR_UNIT == "deg"

PairInit ==
    /\ pair_call \in [first : PairValues, second : PairValues, out : {""}, pc : {"call"}]
    /\ BaseIdle /\ ImageIdle /\ ManagerIdle /\ DialogIdle /\ DownloaderIdle /\ PlotsIdle

FormatPair ==
    /\ pair_call.pc = "call"
    /\ pair_call' = [pair_call EXCEPT
            !.out = _format_pair(pair_call.first, pair_call.second, PAIR_UNIT),
            !.pc = "done"]
    /\ UNCHANGED <<baseVars, image_call, manager, dialog, downloader, plots_widget>>

SpecPair == PairInit /\ [][FormatPair]_vars

\* The texts one side of the pair can read.
SideTexts == {ND} \cup {Fixed(x, "0") : x \in PairValues \ {None}}

\* out is 'left/right unit' with each side N/D exactly when its argument is None
PairLayout ==
    \E left, right \in SideTexts :
        /\ pair_call.out = left \o "/" \o right \o " " \o PAIR_UNIT
        /\ (left = ND) <=> (pair_call.first = None)
        /\ (right = ND) <=> (pair_call.second = None)
        /\ pair_call.first # None => left = Fixed(pair_call.first, "0")
        /\ pair_call.second # None => right = Fixed(pair_call.second, "0")

\* C21 as stated: for all four combinations of known and unknown arguments
\* _format_pair returns 'left/right unit' whose left side is "N/D" iff first
\* is unknown and whose right side is "N/D" iff second is unknown.
C21_EverySideIndependent == pair_call.pc = "done" => PairLayout

\* C21: when at least one argument is not None, _format_pair returns
\* 'left/right unit' whose left side is "N/D" iff first is None and whose
\* right side is "N/D" iff second is None; when both are None the whole
\* text is the single "N/D".
C21_PairSides ==
    pair_call.pc = "done" =>
        IF pair_call.first = None /\ pair_call.second = None
        THEN pair_call.out = ND
        ELSE PairLayout

\* one side unknown, the other known: 'N/D/30.0 deg'
C21_Witness ==
    /\ pair_call.pc = "done"
    /\ pair_call.first = None /\ pair_call.second = Fin(30)
    /\ pair_call.out = "N/D/30.0 deg"

----------------------------------------------------------------------------
(* PdfReportWorker._add_image_collection: where one image is drawn          *)
(* (pdf_reporter.py lines 203-217).  Lengths are whole numbers of 1/127 pt, *)
(* in which landscape A4 (297 mm x 210 mm) and the inch are exact; the      *)
(* quotients of lines 208-216 are kept as fractions num/den, den > 0.       *)

PAGE_WIDTH == 106920
PAGE_HEIGHT == 75600
INCH == 9144

Frac(num, den) == [num |-> num, den |-> den]
Whole(n) == Frac(n, 1)
FracLeq(a, b) == a.num * b.den <= b.num * a.den
FracEq(a, b) == a.num * b.den = b.num * a.den

\* As lines 212-214 without line 214: the height is capped, the width kept.
ImageBox_stretched(img_w, img_h) ==
    LET box_width == PAGE_WIDTH - 2 * INCH
        max_height == PAGE_HEIGHT - 3 * INCH
        too_tall == box_width * img_h > max_height * img_w
        draw_width == Whole(box_width)
        draw_height == IF too_tall THEN Whole(max_height) ELSE Frac(box_width * img_h, img_w)
    IN  [draw_width |-> draw_width, draw_height |-> draw_height,
         x |-> Frac(PAGE_WIDTH * draw_width.den - draw_width.num, 2 * draw_width.den),
         y |-> Frac(PAGE_HEIGHT * draw_height.den - draw_height.num - INCH * draw_height.den,
                    2 * draw_height.den)]

\* Lines 208-216: aspect = img_h / img_w, the box as wide as the page less
\* an inch each side, shrunk to max_height when taller; x centres it and y
\* centres it half an inch below the middle.
ImageBox(img_w, img_h) ==
    LET box_width == PAGE_WIDTH - 2 * INCH
        max_height == PAGE_HEIGHT - 3 * INCH
        too_tall == box_width * img_h > max_height * img_w
        draw_width == IF too_tall THEN Frac(max_height * img_w, img_h) ELSE Whole(box_width)
        draw_height == IF too_tall THEN Whole(max_height) ELSE Frac(box_width * img_h, img_w)
    IN  [draw_width |-> draw_width, draw_height |-> draw_height,
         x |-> Frac(PAGE_WIDTH * draw_width.den - draw_width.num, 2 * draw_width.den),
         y |-> Frac(PAGE_HEIGHT * draw_height.den - draw_height.num - INCH * draw_height.den,
                    2 * draw_height.den)]

MaxPixels == 8

ImageInit ==
    /\ image_call \in [img_w : 1..MaxPixels, img_h : 1..MaxPixels, box : {None}, pc : {"call"}]
    /\ BaseIdle /\ PairIdle /\ ManagerIdle /\ DialogIdle /\ DownloaderIdle /\ PlotsIdle

\* Line 217: drawImage into the box; preserveAspectRatio leaves a box of the
\* image's own proportions as it is.
DrawImage ==
    /\ image_call.pc = "call"
    /\ image_call' = [image_call EXCEPT
            !.box = ImageBox(image_call.img_w, image_call.img_h), !.pc = "drawn"]
    /\ UNCHANGED <<baseVars, pair_call, manager, dialog, downloader, plots_widget>>

SpecImage == ImageInit /\ [][DrawImage]_vars

\* The image is taller, for its width, than the space below the heading.
TooTall == image_call.img_h * (PAGE_WIDTH - 2 * INCH) > image_call.img_w * (PAGE_HEIGHT - 3 * INCH)

\* C22: an image of positive size is drawn no wider than the page less 2
\* inch and no taller than the page less 3 inch, with height/width equal to
\* the image's own, and with equal margins left and right.
C22_ImageFits ==
    image_call.pc = "drawn" =>
        LET b == image_call.box IN
        /\ FracLeq(b.draw_width, Whole(PAGE_WIDTH - 2 * INCH))
        /\ FracLeq(b.draw_height, Whole(PAGE_HEIGHT - 3 * INCH))
        /\ b.draw_width.num > 0 /\ b.draw_height.num > 0
        /\ b.draw_height.num * b.draw_width.den * image_call.img_w
              = b.draw_width.num * b.draw_height.den * image_call.img_h
        /\ FracEq(Frac(2 * b.x.num * b.draw_width.den + b.draw_width.num * b.x.den,
                       b.x.den * b.draw_width.den), Whole(PAGE_WIDTH))

\* a square image is too tall: drawn max_height high and as wide
C22_Witness ==
    /\ image_call.pc = "drawn" /\ TooTall
    /\ image_call.img_w = image_call.img_h
    /\ FracEq(image_call.box.draw_height, Whole(PAGE_HEIGHT - 3 * INCH))
    /\ FracEq(image_call.box.draw_width, Whole(PAGE_HEIGHT - 3 * INCH))

----------------------------------------------------------------------------
\* C23: every render thread stops: once the worker's outcome, finished or
\* error, has been handled, the thread has been asked to quit (or has
\* already ended), so no thread is left running after a failed render.
C23_ThreadQuitAfterOutcome == queued = "delivered" => thread \in {"quitting", "finished"}

----------------------------------------------------------------------------
(* ReportGenerationManager called more than once (report_generator.py      *)
(* lines 67-123).  frames is the stack of generate_pdf calls that have not  *)
(* returned, each at the processEvents() it is in; a call made from inside  *)
(* processEvents sits on top of the call that pumped the events.  threads   *)
(* lists the QThreads started, in order; _thread is the index of the one    *)
(* self._thread refers to (0 for None), self._worker being its worker.      *)

MaxCalls == 3

Running(ths) == {i \in DOMAIN ths : ths[i] = "running"}

\* Some generate_pdf call is between its first and its last processEvents.
Capturing == manager.frames # <<>>

TopFrame == manager.frames[Len(manager.frames)]

SetTop(pc) == [manager.frames EXCEPT ![Len(manager.frames)] = pc]

ManagerFrame == <<baseVars, pair_call, image_call, dialog, downloader, plots_widget>>

ManagerInit ==
    /\ ManagerIdle
    /\ BaseIdle /\ PairIdle /\ ImageIdle /\ DialogIdle /\ DownloaderIdle /\ PlotsIdle

\* Lines 82-89: a call, from the event loop or from a processEvents() of
\* the call in progress.  With no log loaded it emits error and returns.
MgrGeneratePdf ==
    /\ manager.calls < MaxCalls
    /\ \E loaded \in BOOLEAN :
        manager' = [manager EXCEPT
            !.calls = @ + 1,
            !.frames = IF loaded THEN Append(@, "plots") ELSE @]
    /\ UNCHANGED ManagerFrame

\* Lines 90-93
MgrCapturePlots ==
    /\ Capturing /\ TopFrame = "plots"
    /\ manager' = [manager EXCEPT !.frames = SetTop("maps")]
    /\ UNCHANGED ManagerFrame

\* Lines 94-97
MgrCaptureMaps ==
    /\ Capturing /\ TopFrame = "maps"
    /\ manager' = [manager EXCEPT !.frames = SetTop("analytics")]
    /\ UNCHANGED ManagerFrame

\* Lines 98-123: the analytics, then a new QThread and worker are assigned
\* to self._thread and self._worker, whatever they referred to, and the
\* thread is started.
MgrStart ==
    /\ Capturing /\ TopFrame = "analytics"
    /\ manager' = [manager EXCEPT
            !.frames = SubSeq(@, 1, Len(@) - 1),
            !.threads = Append(@, "running"),
            !._thread = Len(manager.threads) + 1,
            !.replaced = IF manager._thread \in Running(manager.threads)
                         THEN @ \cup {manager._thread} ELSE @]
    /\ UNCHANGED ManagerFrame

\* PdfReportWorker.run ends in its own thread and emits finished or error.
MgrWorkerReports ==
    /\ \E i \in Running(manager.threads), outcome \in {"finished", "error"} :
        manager' = [manager EXCEPT !.threads[i] = outcome]
    /\ UNCHANGED ManagerFrame

\* Lines 116, 118-119: worker.finished reaches the manager's thread.
MgrOnWorkerFinished ==
    /\ \E i \in DOMAIN manager.threads :
        /\ manager.threads[i] = "finished"
        /\ manager' = [manager EXCEPT !.threads[i] = "quitting"]
    /\ UNCHANGED ManagerFrame

\* Line 117: worker.error reaches the manager's thread; the QThread idles.
MgrOnWorkerError ==
    /\ \E i \in DOMAIN manager.threads :
        /\ manager.threads[i] = "error"
        /\ manager' = [manager EXCEPT !.threads[i] = "idling"]
    /\ UNCHANGED ManagerFrame

\* Line 120: the thread's event loop has ended.
MgrThreadFinished ==
    /\ \E i \in DOMAIN manager.threads :
        /\ manager.threads[i] = "quitting"
        /\ manager' = [manager EXCEPT !.threads[i] = "ended"]
    /\ UNCHANGED ManagerFrame

ManagerNext ==
    \/ MgrGeneratePdf
    \/ MgrCapturePlots
    \/ MgrCaptureMaps
    \/ MgrStart
    \/ MgrWorkerReports
    \/ MgrOnWorkerFinished
    \/ MgrOnWorkerError
    \/ MgrThreadFinished

SpecManager == ManagerInit /\ [][ManagerNext]_vars

\* C24: the manager never has two renders in flight: whatever calls are
\* made while a call is capturing or a worker has not reported, at most one
\* started worker that has not reported exists, and the _thread/_worker
\* references to a render still running are never overwritten.
C24_OneRenderInFlight ==
    /\ Cardinality(Running(manager.threads)) <= 1
    /\ manager.replaced = {}

----------------------------------------------------------------------------
(* SharePointDownloadWorker.run in its thread (log_download_dialog.py      *)
(* lines 64-80), on the SharePointClient of sharepoint_downloader.py.  A    *)
(* flight is its position in self.flights; missing holds the flights whose  *)
(* source folder does not exist.                                            *)

\* The methods class SharePointClient defines (lines 134-233).
ClientMethods ==
    {"__init__", "has_valid_programs_root", "require_programs_root", "set_programs_root",
     "list_flights", "_walk_program", "download_flight", "_copy_folder"}

MaxFlights == 3

Signal(sig, arg) == [sig |-> sig, arg |-> arg]

DownloaderFrame == <<baseVars, pair_call, image_call, manager, dialog, plots_widget>>

DownloaderInit ==
    /\ \E n \in 0..MaxFlights, gone \in SUBSET (1..MaxFlights), valid \in BOOLEAN :
        /\ gone \subseteq 1..n
        /\ downloader = [flights |-> n, missing |-> gone, root_valid |-> valid,
                         pc |-> "start", signals |-> <<>>]
    /\ BaseIdle /\ PairIdle /\ ImageIdle /\ ManagerIdle /\ DialogIdle /\ PlotsIdle

\* thread.started -> run (dialog line 409)
DwThreadStarted ==
    /\ downloader.pc = "start"
    /\ downloader' = [downloader EXCEPT !.pc = "create_context"]
    /\ UNCHANGED DownloaderFrame

\* Line 66: self.client.create_context().  The client has no such
\* attribute, so the lookup raises AttributeError and lines 67-78 are
\* skipped.
DwCreateContext ==
    /\ downloader.pc = "create_context"
    /\ "create_context" \notin ClientMethods
    /\ downloader' = [downloader EXCEPT !.pc = "except"]
    /\ UNCHANGED DownloaderFrame

\* Lines 79-80
DwExcept ==
    /\ downloader.pc = "except"
    /\ downloader' = [downloader EXCEPT
            !.signals = Append(@, Signal("error", "AttributeError")), !.pc = "done"]
    /\ UNCHANGED DownloaderFrame

DownloaderNext == DwThreadStarted \/ DwCreateContext \/ DwExcept

SpecDownloader == DownloaderInit /\ [][DownloaderNext]_vars

\* The percentages of a run over n flights that copies every flight:
\* int((idx - 1) / n * 100) before each flight, then 100.
ExpectedProgress(n) == [i \in 1..(n + 1) |-> IF i <= n THEN ((i - 1) * 100) \div n ELSE 100]

\* C27: run over N >= 1 flights whose source folders all exist under a
\* valid programs root emits progress percentages that never decrease and
\* end at 100, then finished with the N local paths in flight order, and
\* no error.
C27_DownloadReports ==
    (/\ downloader.pc = "done" /\ downloader.flights >= 1
     /\ downloader.missing = {} /\ downloader.root_valid) =>
        LET s == downloader.signals
            n == downloader.flights
        IN  /\ Len(s) = n + 2
            /\ \A i \in 1..(n + 1) : s[i] = Signal("progress", ExpectedProgress(n)[i])
            /\ \A i \in 1..n : s[i].arg <= s[i + 1].arg
            /\ s[n + 2] = Signal("finished", [i \in 1..n |-> i])

----------------------------------------------------------------------------
(* LogDownloadDialog (log_download_dialog.py lines 83-450): the pages, the  *)
(* four buttons, _is_busy and the workers.  The user acts only on widgets   *)
(* that are shown and enabled.  Each handler is an operator from the        *)
(* dialog's state to its state after the handler.  workers lists the        *)
(* workers started whose finished or error signal has not been handled yet: *)
(* running, or with the signal queued.  A download worker is taken to be    *)
(* able to emit either signal it is connected by.                           *)

MaxWorkers == 2

Worker(kind, n) == [kind |-> kind, st |-> "running", n |-> n]

\* Lines 324-330
_set_busy_state(d, busy) ==
    [d EXCEPT !._is_busy = busy,
              !.btn_close = ~busy,
              !.btn_back = ~busy /\ d.page = "selection",
              !.btn_program_continue = ~busy /\ d.program_chosen]

\* Lines 371-380
_update_selection_label(d) == [d EXCEPT !.btn_download = d.picked > 0 /\ ~d._is_busy]

\* Lines 248-249, after the selection in program_list changed to chosen
_on_program_selected(d, chosen) ==
    [d EXCEPT !.program_chosen = chosen, !.btn_program_continue = chosen]

\* Lines 273-295
_load_flights(d) ==
    IF ~d.selected_program THEN d
    ELSE [_set_busy_state([d EXCEPT !.shown = 0, !.picked = 0, !.all_flights = 0], TRUE)
            EXCEPT !.btn_download = FALSE, !.workers = Append(@, Worker("list", 0))]

\* Lines 251-262
_go_to_selection_page(d) ==
    IF ~d.program_chosen THEN d
    ELSE _load_flights([d EXCEPT !.selected_program = TRUE, !.page = "selection",
                                 !.btn_back = TRUE])

\* As lines 264-270 without the test of _is_busy.
_go_to_program_page_always(d) == [d EXCEPT !.page = "program", !.btn_back = FALSE]

\* Lines 264-270
_go_to_program_page(d) ==
    IF d._is_busy THEN d
    ELSE [d EXCEPT !.page = "program", !.btn_back = FALSE]

\* Lines 338-362, with kept the number of flights that pass the filters
_apply_filters(d, kept) ==
    IF d.all_flights = 0 THEN [d EXCEPT !.shown = 0, !.picked = 0]
    ELSE _update_selection_label([d EXCEPT !.shown = kept, !.picked = 0])

\* Lines 297-306, with kept the number of flights the reset filters show
_on_flights_loaded(d, flights, kept) ==
    _apply_filters(_set_busy_state([d EXCEPT !.all_flights = flights], FALSE), kept)

\* Lines 332-335
_on_worker_error(d) == _set_busy_state(d, FALSE)

\* As lines 391-419 without the test of _is_busy.
_start_download_unguarded(d) ==
    IF d.picked = 0 THEN d
    ELSE [_set_busy_state(d, TRUE) EXCEPT !.workers = Append(@, Worker("download", d.picked))]

\* Lines 391-419
_start_download(d) ==
    IF d._is_busy THEN d
    ELSE IF d.picked = 0 THEN d
    ELSE [_set_busy_state(d, TRUE) EXCEPT !.workers = Append(@, Worker("download", d.picked))]

\* Lines 425-438
_on_download_finished(d) == _set_busy_state(d, FALSE)

\* Lines 441-450: ignored while busy, else the dialog closes.
closeEvent(d) == IF d._is_busy THEN d ELSE [d EXCEPT !.visible = FALSE]

\* The worker at position i has been handled: its thread quits and it is
\* deleted (lines 287-291, 413-417).
Forget(ws, i) == SubSeq(ws, 1, i - 1) \o SubSeq(ws, i + 1, Len(ws))

DialogFrame == <<baseVars, pair_call, image_call, manager, downloader, plots_widget>>

DialogInit ==
    /\ DialogIdle
    /\ BaseIdle /\ PairIdle /\ ImageIdle /\ ManagerIdle /\ DownloaderIdle /\ PlotsIdle

\* The user selects or deselects a program in program_list.
DlgProgramSelected ==
    /\ dialog.visible /\ dialog.page = "program"
    /\ dialog' = _on_program_selected(dialog, ~dialog.program_chosen)
    /\ UNCHANGED DialogFrame

\* A click on btn_program_continue
DlgContinue ==
    /\ dialog.visible /\ dialog.page = "program" /\ dialog.btn_program_continue
    /\ Len(dialog.workers) < MaxWorkers
    /\ dialog' = _go_to_selection_page(dialog)
    /\ UNCHANGED DialogFrame

\* A click on btn_back
DlgBack ==
    /\ dialog.visible /\ dialog.btn_back
    /\ dialog' = _go_to_program_page(dialog)
    /\ UNCHANGED DialogFrame

\* The user edits the search text or one of the dates.
DlgChangeFilters ==
    /\ dialog.visible /\ dialog.page = "selection"
    /\ \E kept \in 0..dialog.all_flights : dialog' = _apply_filters(dialog, kept)
    /\ UNCHANGED DialogFrame

\* The user changes the selection in flight_list (a click, "select all",
\* "clear selection"): lines 364-369 and the itemSelectionChanged signal.
DlgSelectFlights ==
    /\ dialog.visible /\ dialog.page = "selection"
    /\ \E count \in (0..dialog.shown) \ {dialog.picked} :
        dialog' = _update_selection_label([dialog EXCEPT !.picked = count])
    /\ UNCHANGED DialogFrame

\* A click on btn_download
DlgDownload ==
    /\ dialog.visible /\ dialog.page = "selection" /\ dialog.btn_download
    /\ Len(dialog.workers) < MaxWorkers
    /\ dialog' = _start_download(dialog)
    /\ UNCHANGED DialogFrame

\* A worker's run ends in its thread (lines 45-50, 64-80): finished, for a
\* listing with the flights found, or error.
DlgWorkerReports ==
    /\ \E i \in DOMAIN dialog.workers :
        /\ dialog.workers[i].st = "running"
        /\ \/ \E found \in 0..MaxFlights :
                dialog' = [dialog EXCEPT !.workers[i] =
                    [@ EXCEPT !.st = "finished",
                               !.n = IF dialog.workers[i].kind = "list" THEN found ELSE @]]
           \/ dialog' = [dialog EXCEPT !.workers[i].st = "error"]
    /\ UNCHANGED DialogFrame

\* list_worker.finished is delivered (lines 284, 288-289).
DlgOnFlightsLoaded ==
    /\ \E i \in DOMAIN dialog.workers :
        /\ dialog.workers[i].kind = "list" /\ dialog.workers[i].st = "finished"
        /\ \E kept \in 0..dialog.workers[i].n :
            dialog' = [_on_flights_loaded(dialog, dialog.workers[i].n, kept)
                          EXCEPT !.workers = Forget(@, i)]
    /\ UNCHANGED DialogFrame

\* A worker's error is delivered (lines 285-287, 411-413).
DlgOnWorkerError ==
    /\ \E i \in DOMAIN dialog.workers :
        /\ dialog.workers[i].st = "error"
        /\ dialog' = [_on_worker_error(dialog) EXCEPT !.workers = Forget(@, i)]
    /\ UNCHANGED DialogFrame

\* download_worker.finished is delivered (lines 410, 414-415).
DlgOnDownloadFinished ==
    /\ \E i \in DOMAIN dialog.workers :
        /\ dialog.workers[i].kind = "download" /\ dialog.workers[i].st = "finished"
        /\ dialog' = [_on_download_finished(dialog) EXCEPT !.workers = Forget(@, i)]
    /\ UNCHANGED DialogFrame

\* The user closes the window.
DlgCloseEvent ==
    /\ dialog.visible
    /\ dialog' = closeEvent(dialog)
    /\ UNCHANGED DialogFrame

\* A click on btn_close, connected to reject (line 132): the dialog hides.
DlgReject ==
    /\ dialog.visible /\ dialog.btn_close
    /\ dialog' = [dialog EXCEPT !.visible = FALSE]
    /\ UNCHANGED DialogFrame

DialogNext ==
    \/ DlgProgramSelected
    \/ DlgContinue
    \/ DlgBack
    \/ DlgChangeFilters
    \/ DlgSelectFlights
    \/ DlgDownload
    \/ DlgWorkerReports
    \/ DlgOnFlightsLoaded
    \/ DlgOnWorkerError
    \/ DlgOnDownloadFinished
    \/ DlgCloseEvent
    \/ DlgReject

SpecDialog == DialogInit /\ [][DialogNext]_vars

\* A worker that runs ends its run, and the dialog's event loop delivers
\* every queued signal.
DialogFairness ==
    /\ WF_vars(DlgWorkerReports)
    /\ WF_vars(DlgOnFlightsLoaded)
    /\ WF_vars(DlgOnWorkerError)
    /\ WF_vars(DlgOnDownloadFinished)

SpecDialogLive == SpecDialog /\ DialogFairness

\* C25: at most one background worker, listing or download, exists at any
\* time under every sequence of user actions, and no step starts a worker
\* while _is_busy is true.
C25_OneWorker ==
    /\ [](Len(dialog.workers) <= 1)
    /\ [][Len(dialog'.workers) > Len(dialog.workers) => ~dialog._is_busy]_vars

\* a download is running and btn_download is still enabled
C25_Witness ==
    /\ Len(dialog.workers) = 1 /\ dialog.workers[1].kind = "download"
    /\ dialog._is_busy /\ dialog.btn_download /\ dialog.visible

\* C26: _is_busy is true exactly while a started worker's finished or error
\* has not been handled; while it is true closeEvent leaves the dialog open
\* and _go_to_program_page changes nothing; and whenever the dialog is busy
\* it is later not busy.
C26_BusyWhileWorker ==
    /\ [](/\ dialog._is_busy <=> dialog.workers # <<>>
          /\ dialog._is_busy =>
                /\ closeEvent(dialog) = dialog
                /\ _go_to_program_page(dialog) = dialog)
    /\ (dialog._is_busy ~> ~dialog._is_busy)

\* a listing failed: its error has been handled and the dialog is free again
C26_Witness ==
    /\ dialog.page = "selection" /\ dialog.selected_program
    /\ ~dialog._is_busy /\ dialog.workers = <<>>
    /\ dialog.all_flights = 0 /\ dialog.btn_back /\ dialog.btn_close

----------------------------------------------------------------------------
(* StandardPlotsWidget: the page's readiness, the queued scripts and the    *)
(* remembered cursor and window (standard_plots_widget.py lines 29-32,      *)
(* 78-132, 358-393).  Times are whole numbers of 10^6 seconds or            *)
(* milliseconds, as the argument's kind says; executed lists the scripts    *)
(* handed to the page's runJavaScript, in order.                            *)

\* 1e12 and 1000.0 of line 386, the former in units of 10^6
MS_THRESHOLD == 1000000
MS_PER_SECOND == 1000

\* A timestamp argument: a number, a datetime (held as its epoch
\* milliseconds) or something pd.Timestamp cannot parse.
Num(v) == [k |-> "fin", v |-> v]
Stamp(ms) == [k |-> "dt", v |-> ms]
Unparsable == [k |-> "str", v |-> 0]

\* The tuple (start_ms, end_ms) of line 86
Window(start_ms, end_ms) == [k |-> "pair", v |-> <<start_ms, end_ms>>]

\* Lines 384-393
_to_epoch_ms(ts) ==
    IF ts.k = "fin" THEN (IF ts.v < MS_THRESHOLD THEN ts.v * MS_PER_SECOND ELSE ts.v)
    ELSE IF ts.k = "dt" THEN ts.v
    ELSE 0

\* The scripts of lines 81 and 87-93, by the function they call and the
\* numbers json.dumps writes into them.
CursorScript(ms) == [fn |-> "updateCursor", args |-> <<ms>>]
WindowScript(start_ms, end_ms) == [fn |-> "setTimeWindow", args |-> <<start_ms, end_ms>>]

\* Lines 358-367, with the page alive
_run_js(w, script) ==
    IF w._web_ready THEN [w EXCEPT !.executed = Append(@, script)]
    ELSE [w EXCEPT !._pending_js = Append(@, script)]

\* Lines 78-81
update_cursor(w, timestamp) ==
    LET ts_ms == _to_epoch_ms(timestamp)
    IN  _run_js([w EXCEPT !._last_cursor_ms = Num(ts_ms)], CursorScript(ts_ms))

\* Lines 83-93
set_time_window(w, start_ts, end_ts) ==
    LET start_ms == _to_epoch_ms(start_ts)
        end_ms == _to_epoch_ms(end_ts)
    IN  _run_js([w EXCEPT !._last_window = Window(Num(start_ms), Num(end_ms))],
                WindowScript(start_ms, end_ms))

\* Lines 369-382: the remembered cursor and window go through
\* update_cursor and set_time_window again, then the queue is run.
_on_webview_ready(w, ok) ==
    LET w1 == [w EXCEPT !._web_ready = ok]
        w2 == IF w1._last_cursor_ms # None THEN update_cursor(w1, w1._last_cursor_ms) ELSE w1
        w3 == IF w2._last_window # None
              THEN set_time_window(w2, w2._last_window.v[1], w2._last_window.v[2]) ELSE w2
    IN  IF ~ok THEN w1
        ELSE [w3 EXCEPT !.executed = @ \o w3._pending_js, !._pending_js = <<>>]

MaxUpdates == 2
MaxLoads == 2

\* 0; 10^6 s; 1.7 * 10^9 s and 1.7 * 10^12 ms (the year 2023) as numbers;
\* the years 2000 and 2023 as datetimes; a text that is no date.
TimeInputs == {Num(0), Num(1), Num(1700), Num(1700000), Stamp(946685), Stamp(1700000), Unparsable}
WindowInputs == {<<Num(1700), Num(1701)>>, <<Stamp(946685), Stamp(946686)>>, <<Stamp(1700000), Stamp(1700001)>>}

PlotsFrame == <<baseVars, pair_call, image_call, manager, dialog, downloader>>

PlotsInit ==
    /\ PlotsIdle
    /\ BaseIdle /\ PairIdle /\ ImageIdle /\ ManagerIdle /\ DialogIdle /\ DownloaderIdle

PwUpdateCursor ==
    /\ plots_widget.updates < MaxUpdates
    /\ \E t \in TimeInputs :
        plots_widget' = [update_cursor(plots_widget, t) EXCEPT !.updates = @ + 1]
    /\ UNCHANGED PlotsFrame

PwSetTimeWindow ==
    /\ plots_widget.updates < MaxUpdates
    /\ \E win \in WindowInputs :
        plots_widget' = [set_time_window(plots_widget, win[1], win[2]) EXCEPT !.updates = @ + 1]
    /\ UNCHANGED PlotsFrame

\* Lines 96-132: _render_empty or update_plot gives the view a new page.
PwSetHtml ==
    /\ plots_widget.loads < MaxLoads
    /\ plots_widget' = [plots_widget EXCEPT !._web_ready = FALSE, !.loading = TRUE, !.loads = @ + 1]
    /\ UNCHANGED PlotsFrame

\* webview.loadFinished(ok) (line 64)
PwLoadFinished ==
    /\ plots_widget.loading
    /\ \E ok \in BOOLEAN :
        plots_widget' = [_on_webview_ready(plots_widget, ok) EXCEPT !.loading = FALSE]
    /\ UNCHANGED PlotsFrame

PlotsNext == PwUpdateCursor \/ PwSetTimeWindow \/ PwSetHtml \/ PwLoadFinished

SpecPlots == PlotsInit /\ [][PlotsNext]_vars

\* The step is _on_webview_ready(True).
ReadyStep == plots_widget.loading /\ ~plots_widget'.loading /\ plots_widget'._web_ready

\* C28: scripts passed while the page is not ready are queued; when
\* _on_webview_ready(True) fires, what the page runs is each queued script
\* once, in submission order, and the queue is left empty; no script runs
\* while _web_ready is false; a reload neither loses nor duplicates a queued
\* cursor or time-window update.
C28_QueueRunOnce ==
    [][/\ ReadyStep =>
            /\ plots_widget'.executed = plots_widget.executed \o plots_widget._pending_js
            /\ plots_widget'._pending_js = <<>>
       /\ plots_widget'.executed # plots_widget.executed => plots_widget'._web_ready
       /\ ~plots_widget'._web_ready =>
            /\ Len(plots_widget'._pending_js) >= Len(plots_widget._pending_js)
            /\ SubSeq(plots_widget'._pending_js, 1, Len(plots_widget._pending_js))
                  = plots_widget._pending_js]_vars

\* C29: replaying the remembered cursor and window when the page becomes
\* ready leaves _last_cursor_ms and _last_window as they were first
\* computed (_to_epoch_ms gives its own outputs back, below 1e12 too).
C29_ReplayKeepsValues ==
    [][ReadyStep =>
            /\ plots_widget'._last_cursor_ms = plots_widget._last_cursor_ms
            /\ plots_widget'._last_window = plots_widget._last_window]_vars

----------------------------------------------------------------------------
\* C30: for every positive duration the seconds field of the text of
\* _format_duration, as rounded to one decimal, is below 60.0: no text ends
\* in '60.0s', the carry goes into the minutes and hours.
C30_SecondsBelowSixty ==
    fpc = "done" =>
        \A hours \in 0..2, mins \in 0..(MINUTES_PER_HOUR - 1) :
            fmt_out # DurationText(hours, mins, 10 * SECONDS_PER_MINUTE)

============================================================================
